---- MODULE Spec2Model ----
(***************************************************************************)
(* Model of the generic cache engine of libass/ass_cache.c: the bucket     *)
(* map, the per-item construction barrier, frame/usage tracking with       *)
(* per-client promote lists, the eviction queue, ass_cache_cut,            *)
(* ass_cache_empty, ass_cache_done and the reference counting.             *)
(*                                                                         *)
(* Pointers to items are item ids (NULL == 0).  A pointer to a link field  *)
(* (the prev and queue_prev fields, queue_last) is a pair <<kind, index>>.  *)
(***************************************************************************)
EXTENDS Integers, Sequences, FiniteSets, TLC

\* ---- bounds of the model ------------------------------------------------
MaxItems == 3      \* allocations of items followed in one behaviour
NKeys == 3         \* distinct keys the callers ask for
NClients == 2      \* client handles (one thread each)
MaxFrame == 3      \* ass_cache_cut is followed while cur_frame < MaxFrame
ConcKeys == 2      \* NKeys and MaxFrame of the specification in which several
ConcFrame == 2     \*   clients run ass_cache_get concurrently
MaxSize == 2       \* largest size construct_func reports
MaxHeld == 1       \* references one outside holder keeps on an item
MaxTrace == 5      \* completed gets recorded in the history of a run

\* ---- program constants --------------------------------------------------
Buckets == 2           \* cache->buckets (0xFFFF in the source), scaled down
CACHE_ITEM_SIZE == 88  \* sizeof(CacheItem) rounded up to CACHE_ALIGN

NULL == 0
Items == 1..MaxItems
Keys == 1..NKeys
Clients == 1..NClients
Sizes == 1..MaxSize

NoLink == <<"null", 0>>
BucketLink(b) == <<"bucket", b>>
NextLink(i) == <<"next", i>>
QFirstLink == <<"qfirst", 0>>
QNextLink(i) == <<"qnext", i>>

VARIABLES
    item,      \* item id -> the CacheItem header and its key
    cache,     \* struct cache
    client,    \* client id -> struct cache_client and the locals of its ass_cache_get
    mutex,     \* client id -> holder of client->mutex (NULL when free)
    waiters,   \* client id -> clients sleeping in pthread_cond_wait on client->cond
    nalloc,    \* items allocated so far (malloc hands out fresh ids)
    other,     \* a second cache, of another descriptor: its struct cache and its clients
    hist       \* history: construct/destruct calls, handles held outside, the run's gets

vars == <<item, cache, client, mutex, waiters, nalloc, other, hist>>

\* ---- data ---------------------------------------------------------------
GARBAGE == -1   \* the indeterminate content of a field malloc left unwritten

\* A key: an identity and, for keys that embed a cross-cache reference
\* (OUTLINE_BORDER, bitmap, composite, ...), the referenced value.
Key(id, ref) == [id |-> id, ref |-> ref]
NoKey == Key(0, NULL)
PlainKeys == {Key(n, NULL) : n \in Keys}

\* desc->hash_func: keys 2 and 3 collide on the whole hash code
Hash(key) == key.id \div 2

\* desc->compare_func: field by field, referenced values by address
Compare(a, b) == a.id = b.id /\ a.ref = b.ref

\* hash % cache->buckets
Bucket(key) == Hash(key) % Buckets

\* size + (size == 1 ? 0 : CACHE_ITEM_SIZE)
Contribution(size) == size + (IF size = 1 THEN 0 ELSE CACHE_ITEM_SIZE)

UnusedItem ==
    [st |-> "unused", desc |-> "none", key |-> NoKey, hash |-> 0, next |-> NULL, prev |-> NoLink,
     queue_next |-> NULL, queue_prev |-> NoLink, promote_next |-> NULL,
     size |-> 0, ref_count |-> 0, last_used_frame |-> 0, creating_client |-> NULL]

\* the memory of a freed item: nothing of it may be read any more
FreedItem == [UnusedItem EXCEPT !.st = "freed"]

IdleLocals ==
    [pc |-> "idle", key |-> NoKey, start |-> NULL, stop_at |-> NULL,
     new_item |-> NULL, found |-> NULL, old_last |-> NoLink, size |-> 0, ret |-> NULL,
     waited |-> FALSE,    \* history: this get slept on the construction barrier
     kops |-> <<>>]       \* history: the calls this get made on its key

\* ass_cache_create (the state after construction) followed by n
\* ass_cache_client_create calls
InitCache(n) ==
    [map |-> [b \in 0..(Buckets - 1) |-> NULL],
     queue_first |-> NULL, queue_last |-> QFirstLink,
     cache_size |-> 0, cur_frame |-> 0,
     n_clients |-> n, clients |-> [s \in 0..(NClients - 1) |-> IF s < n THEN s + 1 ELSE NULL],
     desc |-> "first",      \* cache->desc
     mutex |-> NULL,        \* holder of cache->mutex (NULL when free)
     alive |-> TRUE]

\* a second cache, created with another descriptor, and its one client
InitOther ==
    [cache |-> [InitCache(1) EXCEPT !.desc = "second"],
     client |-> [c \in Clients |->
                   [attached |-> c <= 1, idx |-> 0, promote_first |-> NULL] @@ IdleLocals]]

InitClient(c, n) ==
    [attached |-> c <= n, idx |-> IF c <= n THEN c - 1 ELSE 0, promote_first |-> NULL] @@ IdleLocals

\* what the history keeps of a cut: its budget, the frame it ended and the
\* items it evicted
NoOp == [op |-> "none", max |-> 0, frame |-> 0, evicted |-> {}]

InitHist(own, track) ==
    [ncons |-> [i \in Items |-> 0],     \* construct_func calls per item
     ndestr |-> [i \in Items |-> 0],    \* destruct_func calls per item
     dby |-> [i \in Items |-> "none"],  \* the operation whose dec_ref_item destructed the item
     dord |-> [i \in Items |-> <<>>],   \* what destruct_func released of the item, in order
     dlinked |-> [i \in Items |-> FALSE], \* destroy_item found next or prev of the item set
     ctx |-> "none",                    \* the operation that is running
     dropped |-> [i \in Items |-> FALSE], \* a dec_ref balancing an inc_ref was applied to the item
     held |-> [i \in Items |-> 0],      \* references taken outside with inc_ref, not yet dropped
     got |-> [i \in Items |-> 0],       \* gets of the item not yet followed by a dec_ref (at most MaxHeld counted)
     unmatched |-> FALSE,               \* some dec_ref was matched by a get only, not by an inc_ref
     ub |-> FALSE,                      \* freed memory or a null link has been dereferenced
     own |-> own,                       \* whether callers keep the values get returns as handles
     track |-> track,                   \* whether the run's gets are recorded in trace
     trace |-> <<>>,                    \* the completed gets since the last cut or empty
     kcons |-> [k \in Keys |-> 0],      \* construct_func calls per key since the last cut or empty
     last |-> NoOp]                     \* the last cut or empty, until the next get begins

\* ---- reading the structure ----------------------------------------------
RECURSIVE ChainFrom(_, _, _)
ChainFrom(it, i, n) ==
    IF i = NULL \/ n = 0 THEN <<>>
    ELSE IF it[i].st # "live" THEN <<i>>
    ELSE <<i>> \o ChainFrom(it, it[i].next, n - 1)

\* the items of bucket b, head first
BucketChain(b) == ChainFrom(item, cache.map[b], MaxItems + 1)

RECURSIVE QueueFrom(_, _, _)
QueueFrom(it, i, n) ==
    IF i = NULL \/ n = 0 THEN <<>>
    ELSE IF it[i].st # "live" THEN <<i>>
    ELSE <<i>> \o QueueFrom(it, it[i].queue_next, n - 1)

\* the items reached from queue_first by queue_next, head first
Queue == QueueFrom(item, cache.queue_first, MaxItems + 1)

RECURSIVE PromoteFrom(_, _, _)
PromoteFrom(it, i, n) ==
    IF i = NULL \/ i = GARBAGE \/ n = 0 THEN <<>>
    ELSE IF it[i].st # "live" THEN <<i>>
    ELSE <<i>> \o PromoteFrom(it, it[i].promote_next, n - 1)

PromoteList(c) == PromoteFrom(item, client[c].promote_first, MaxItems + 1)

Range(s) == {s[x] : x \in DOMAIN s}

\* the items stored in the bucket chains
Stored == UNION {Range(BucketChain(b)) : b \in DOMAIN cache.map}

RECURSIVE ScanChain(_, _, _, _, _)

\* the scan comparing the hash code only
ScanChainHashOnly(it, i, stop_at, key, n) ==
    IF i = NULL \/ i = stop_at \/ n = 0 THEN NULL
    ELSE IF it[i].hash = Hash(key) THEN i
    ELSE ScanChain(it, it[i].next, stop_at, key, n - 1)

\* the loop of lines 552-555: the first item from start, before stop_at, whose
\* hash and key match; NULL when the loop ends without a match
ScanChain(it, i, stop_at, key, n) ==
    IF i = NULL \/ i = stop_at \/ n = 0 THEN NULL
    ELSE IF it[i].hash = Hash(key) /\ Compare(key, it[i].key) THEN i
    ELSE ScanChain(it, it[i].next, stop_at, key, n - 1)

\* whether that loop reads an item that has been freed
RECURSIVE ScanReadsFreed(_, _, _, _, _)
ScanReadsFreed(it, i, stop_at, key, n) ==
    IF i = NULL \/ i = stop_at \/ n = 0 THEN FALSE
    ELSE IF it[i].st # "live" THEN TRUE
    ELSE IF it[i].hash = Hash(key) /\ Compare(key, it[i].key) THEN FALSE
    ELSE ScanReadsFreed(it, it[i].next, stop_at, key, n - 1)

\* ---- reference counting and destruction ---------------------------------
\* The operators below transform a snapshot S of the state; an action
\* installs the snapshot it computes.
St == [item |-> item, cache |-> cache, client |-> client, other |-> other, hist |-> hist]

SetUB(S) == [S EXCEPT !.hist.ub = TRUE]

RECURSIVE DecRefItem(_, _, _)

\* ass_cache_inc_ref that does not count
CacheIncRefLost(S, v) == S

\* ass_cache_inc_ref without the test for a null value: value_to_item(NULL)
\* is dereferenced
CacheIncRefNoNullTest(S, v) ==
    IF v = NULL THEN SetUB(S)
    ELSE IF S.item[v].st # "live" THEN SetUB(S)
    ELSE [S EXCEPT !.item[v].ref_count = @ + 1]

\* ass_cache_inc_ref: null tolerated
CacheIncRef(S, v) ==
    IF v = NULL THEN S
    ELSE IF S.item[v].st # "live" THEN SetUB(S)
    ELSE [S EXCEPT !.item[v].ref_count = @ + 1]

\* ass_cache_dec_ref: null tolerated
CacheDecRef(S, v, n) ==
    IF v = NULL THEN S ELSE DecRefItem(S, v, n)

\* key_move_func copying the key without taking the reference
KeyMoveNoRef(S, key) == S

\* desc->key_move_func(dst, src) with dst non-null: the stored copy of the key
\* takes a reference on the value the key embeds
KeyMove(S, key) == CacheIncRef(S, key.ref)

\* desc->key_destruct_func: drops the reference the stored key holds
KeyDestruct(S, key, n) == CacheDecRef(S, key.ref, n)

\* the cache types of ass_cache.c (lines 85-94, 122-131, 195-204, 288-297,
\* 326-335, 363-372)
Descs == {"font", "outline", "glyph_metrics", "sized_shaper_font", "bitmap", "composite"}

\* destruct_func releases the key before the value: bitmap_destruct (114-118)
\* and sized_shaper_font_destruct (318-322) call the key destructor first;
\* glyph_metrics_destruct (356-359) releases the key only, the value record
\* goes with the item's storage in free(item) (line 669)
KeyFirst(desc) == desc \in {"bitmap", "sized_shaper_font", "glyph_metrics"}

\* ass_font_clear, the only call of font_destruct (78-81): releases the opened
\* faces and then the family string the stored key owns
FontClearOrder == <<"value", "key">>

\* the order in which desc->destruct_func releases the two halves of an item;
\* composite_destruct (184-191) and outline_destruct (278-284) release the
\* value first
DestructOrder(desc) ==
    IF desc = "font" THEN FontClearOrder
    ELSE IF KeyFirst(desc) THEN <<"key", "value">>
    ELSE <<"value", "key">>

\* destroy_item: desc->destruct_func (value and key), then free(item).  The
\* asserted detachment (next and prev null) is not enforced in a release
\* build: the links of other objects to the item are left as they are.
DestroyItem(S, i, n) ==
    LET key == S.item[i].key
        ord == DestructOrder(S.item[i].desc)
        S0 == [S EXCEPT !.hist.ndestr[i] = @ + 1, !.hist.dby[i] = S.hist.ctx,
                        !.hist.dlinked[i] = S.item[i].next # NULL \/ S.item[i].prev # NoLink]
        Release(T, what) ==
            LET T1 == [T EXCEPT !.hist.dord[i] = Append(@, what)]
            IN  IF what = "key" THEN KeyDestruct(T1, key, n) ELSE T1
        S1 == Release(Release(S0, ord[1]), ord[2])
    IN  [S1 EXCEPT !.item[i] = FreedItem]

\* dec_ref_item destructing on every call, whatever the count
DecRefItemEager(S, i, n) ==
    IF n = 0 \/ S.item[i].st # "live" \/ S.item[i].ref_count = 0 THEN SetUB(S)
    ELSE DestroyItem([S EXCEPT !.item[i].ref_count = @ - 1], i, n - 1)

\* dec_ref_item
DecRefItem(S, i, n) ==
    IF n = 0 \/ S.item[i].st # "live" \/ S.item[i].ref_count = 0 THEN SetUB(S)
    ELSE IF S.item[i].ref_count = 1
         THEN DestroyItem([S EXCEPT !.item[i].ref_count = 0], i, n - 1)
         ELSE [S EXCEPT !.item[i].ref_count = @ - 1]

\* history: the snapshot with the running operation named
In(S, op) == [S EXCEPT !.hist.ctx = op]

Install(S) ==
    /\ item' = S.item
    /\ cache' = S.cache
    /\ client' = S.client
    /\ other' = S.other
    /\ hist' = S.hist

\* writing an item pointer v through a link pointer
SetLink(S, link, v) ==
    CASE link[1] = "bucket" -> [S EXCEPT !.cache.map[link[2]] = v]
      [] link[1] = "qfirst" -> [S EXCEPT !.cache.queue_first = v]
      [] link[1] = "next" ->
            IF S.item[link[2]].st = "live" THEN [S EXCEPT !.item[link[2]].next = v]
            ELSE SetUB(S)
      [] link[1] = "qnext" ->
            IF S.item[link[2]].st = "live" THEN [S EXCEPT !.item[link[2]].queue_next = v]
            ELSE SetUB(S)
      [] OTHER -> SetUB(S)

\* ---- ass_cache_get, one action per shared-memory step -------------------
Running == cache.alive /\ ~hist.ub

Idle(c) == client[c].pc = "idle"
AllIdle == \A c \in Clients : Idle(c)

\* the prepared item freed with its key never released
AfterUseNoRelease(c) == "chk_size"

\* after the use of a matched item (lines 567-570): a prepared item's key
\* releases its reference with key_destruct; otherwise key_move(NULL, key)
AfterUse(c) ==
    IF client[c].new_item # NULL /\ client[c].key.ref # NULL THEN "keyrel" ELSE "chk_size"

\* history of lines 567-570: key_move_func(NULL, key) when no item was
\* prepared; key_destruct_func on a prepared item's key, recorded here when it
\* embeds no value and so changes no count
AfterUseOps(c) ==
    IF client[c].new_item = NULL THEN Append(client[c].kops, "drop")
    ELSE IF client[c].key.ref = NULL THEN Append(client[c].kops, "destruct")
    ELSE client[c].kops

\* lines 539-555 and 590: the bucket head is loaded once and the chain is
\* scanned; on no match the scanned head becomes stop_at
GetCall(c, key, maxItems) ==
    /\ Running
    /\ client[c].attached /\ Idle(c)
    /\ key.ref # NULL => item[key.ref].st = "live" /\ item[key.ref].size # 0
    /\ hist.track => Len(hist.trace) < MaxTrace
    /\ LET start == cache.map[Bucket(key)]
           found == ScanChain(item, start, NULL, key, MaxItems + 1)
           pending == Cardinality({d \in Clients : client[d].pc = "alloc"})
       IN  IF ScanReadsFreed(item, start, NULL, key, MaxItems + 1)
           THEN /\ hist' = [hist EXCEPT !.ub = TRUE]
                /\ UNCHANGED client
           ELSE /\ found = NULL => nalloc + pending < maxItems
                /\ client' = [client EXCEPT ![c].key = key, ![c].start = start,
                                 ![c].found = found,
                                 ![c].stop_at = IF found = NULL THEN start ELSE NULL,
                                 ![c].pc = IF found = NULL THEN "alloc" ELSE "load_frame"]
                /\ hist' = [hist EXCEPT !.last = NoOp]
    /\ UNCHANGED <<other, item, cache, mutex, waiters, nalloc>>

\* AllocFail with the reference of a half-moved key left behind
AllocFailKeepsRef(c) ==
    /\ Running
    /\ client[c].pc = "alloc"
    /\ Install(KeyMove([St EXCEPT !.client[c].pc = "ret", !.client[c].ret = NULL,
                                  !.client[c].kops = Append(@, "drop")],
                       client[c].key))
    /\ UNCHANGED <<mutex, waiters, nalloc>>

\* lines 594-599 and 602-605: malloc or key_move_func fails; the key is
\* abandoned with key_move_func(NULL, key) and get returns NULL
AllocFail(c) ==
    /\ Running
    /\ client[c].pc = "alloc"
    /\ client' = [client EXCEPT ![c].pc = "ret", ![c].ret = NULL,
                                 ![c].kops = Append(@, "drop")]
    /\ UNCHANGED <<other, item, cache, mutex, waiters, nalloc, hist>>

\* the prepared item carrying a second reference, one for the caller of get
NewItemCallerRef(c, key) ==
    [st |-> "live", desc |-> cache.desc, key |-> key, hash |-> Hash(key), next |-> NULL,
     prev |-> NoLink,
     queue_next |-> NULL, queue_prev |-> NoLink, promote_next |-> GARBAGE,
     size |-> 0, ref_count |-> 2, last_used_frame |-> cache.cur_frame,
     creating_client |-> c]

\* the prepared item carrying a size before its constructor has run
NewItemSized(c, key) ==
    [st |-> "live", desc |-> cache.desc, key |-> key, hash |-> Hash(key), next |-> NULL,
     prev |-> NoLink,
     queue_next |-> NULL, queue_prev |-> NoLink, promote_next |-> GARBAGE,
     size |-> 1, ref_count |-> 1, last_used_frame |-> cache.cur_frame,
     creating_client |-> c]

\* the item prepared by lines 594-618 (promote_next is left unwritten)
NewItem(c, key) ==
    [st |-> "live", desc |-> cache.desc, key |-> key, hash |-> Hash(key), next |-> NULL,
     prev |-> NoLink,
     queue_next |-> NULL, queue_prev |-> NoLink, promote_next |-> GARBAGE,
     size |-> 0, ref_count |-> 1, last_used_frame |-> cache.cur_frame,
     creating_client |-> c]

\* lines 592-619: prepare the item to insert; the key moves into it
Alloc(c) ==
    /\ Running
    /\ client[c].pc = "alloc"
    /\ nalloc < MaxItems
    /\ LET i == nalloc + 1
           S1 == [St EXCEPT !.item[i] = NewItem(c, client[c].key),
                            !.client[c].new_item = i, !.client[c].pc = "cas",
                            !.client[c].kops = Append(@, "move")]
       IN  Install(KeyMove(S1, client[c].key))
    /\ nalloc' = nalloc + 1
    /\ UNCHANGED <<mutex, waiters>>

\* Cas with the rescan of the newly prepended prefix left out
CasNoRescan(c) ==
    /\ Running
    /\ client[c].pc = "cas"
    /\ LET b == Bucket(client[c].key)
           new == client[c].new_item
           head == cache.map[b]
       IN  IF head = client[c].start
           THEN /\ cache' = [cache EXCEPT !.map[b] = new]
                /\ item' = [item EXCEPT ![new].next = client[c].start,
                                        ![new].prev = BucketLink(b)]
                /\ client' = [client EXCEPT ![c].pc = "qxchg"]
           ELSE /\ client' = [client EXCEPT ![c].start = head, ![c].stop_at = head]
                /\ UNCHANGED <<item, cache>>
    /\ UNCHANGED <<other, mutex, waiters, nalloc, hist>>

\* lines 621-625 and the retry of 551-555: the compare-and-swap on the bucket
\* head; on failure start is reloaded and the new prefix is scanned
Cas(c) ==
    /\ Running
    /\ client[c].pc = "cas"
    /\ LET b == Bucket(client[c].key)
           new == client[c].new_item
           head == cache.map[b]
           found == ScanChain(item, head, client[c].stop_at, client[c].key, MaxItems + 1)
       IN  IF head = client[c].start
           THEN /\ cache' = [cache EXCEPT !.map[b] = new]
                /\ item' = [item EXCEPT ![new].next = client[c].start,
                                        ![new].prev = BucketLink(b)]
                /\ client' = [client EXCEPT ![c].pc = "qxchg"]
           ELSE /\ client' = [client EXCEPT ![c].start = head, ![c].found = found,
                                 ![c].stop_at = IF found = NULL THEN head ELSE @,
                                 ![c].pc = IF found = NULL THEN "cas" ELSE "load_frame"]
                /\ UNCHANGED <<item, cache>>
    /\ UNCHANGED <<other, mutex, waiters, nalloc, hist>>

\* QXchg without lines 628-629: the old head keeps its back pointer
QXchgNoBackPatch(c) ==
    /\ Running
    /\ client[c].pc = "qxchg"
    /\ LET new == client[c].new_item
       IN  /\ cache' = [cache EXCEPT !.queue_last = QNextLink(new)]
           /\ client' = [client EXCEPT ![c].old_last = cache.queue_last, ![c].pc = "qlink"]
    /\ UNCHANGED <<other, item, mutex, waiters, nalloc, hist>>

\* lines 628-631: patch the old head's back pointer and swap the queue tail
QXchg(c) ==
    /\ Running
    /\ client[c].pc = "qxchg"
    /\ LET new == client[c].new_item
           start == client[c].start
       IN  /\ item' = IF start = NULL THEN item
                      ELSE [item EXCEPT ![start].prev = NextLink(new)]
           /\ cache' = [cache EXCEPT !.queue_last = QNextLink(new)]
           /\ client' = [client EXCEPT ![c].old_last = cache.queue_last, ![c].pc = "qlink"]
    /\ UNCHANGED <<other, mutex, waiters, nalloc, hist>>

\* QLink with the lock of line 644 taken before construct_func is called
QLinkLocked(c) ==
    /\ Running
    /\ client[c].pc = "qlink"
    /\ mutex[c] = NULL
    /\ LET new == client[c].new_item
           S1 == [St EXCEPT !.item[new].queue_prev = client[c].old_last,
                            !.client[c].old_last = NoLink,
                            !.client[c].pc = "construct"]
       IN  Install(SetLink(S1, client[c].old_last, new))
    /\ mutex' = [mutex EXCEPT ![c] = c]
    /\ UNCHANGED <<waiters, nalloc>>

\* lines 632-633: link the new item behind the old tail
QLink(c) ==
    /\ Running
    /\ client[c].pc = "qlink"
    /\ LET new == client[c].new_item
           S1 == [St EXCEPT !.item[new].queue_prev = client[c].old_last,
                            !.client[c].old_last = NoLink,
                            !.client[c].pc = "construct"]
       IN  Install(SetLink(S1, client[c].old_last, new))
    /\ UNCHANGED <<mutex, waiters, nalloc>>

\* lines 637-641: construct_func runs with no lock held and reports a size;
\* the size contribution is added to cache_size
Construct(c) ==
    /\ Running
    /\ client[c].pc = "construct"
    /\ \E sz \in Sizes :
          /\ client' = [client EXCEPT ![c].size = sz, ![c].pc = "plock"]
          /\ cache' = [cache EXCEPT !.cache_size = @ + Contribution(sz)]
          /\ hist' = [hist EXCEPT !.ncons[client[c].new_item] = @ + 1,
                                  !.kcons[client[c].key.id] = @ + 1]
    /\ UNCHANGED <<other, item, mutex, waiters, nalloc>>

\* line 644
PLock(c) ==
    /\ Running
    /\ client[c].pc = "plock"
    /\ mutex[c] = NULL
    /\ mutex' = [mutex EXCEPT ![c] = c]
    /\ client' = [client EXCEPT ![c].pc = "pstore"]
    /\ UNCHANGED <<other, item, cache, waiters, nalloc, hist>>

\* lines 647-650: publish the size under the creating client's mutex
PStore(c) ==
    /\ Running
    /\ client[c].pc = "pstore"
    /\ item' = [item EXCEPT ![client[c].new_item].size = client[c].size]
    /\ mutex' = [mutex EXCEPT ![c] = NULL]
    /\ client' = [client EXCEPT ![c].pc = "bcast"]
    /\ UNCHANGED <<other, cache, waiters, nalloc, hist>>

\* the return of lines 651-654 with the broadcast left out
BcastLost(c) ==
    /\ Running
    /\ client[c].pc = "bcast"
    /\ client' = [client EXCEPT ![c].pc = "ret", ![c].ret = client[c].new_item]
    /\ UNCHANGED <<other, item, cache, mutex, waiters, nalloc, hist>>

\* lines 651-654: wake every waiter of this client's condvar and return
Bcast(c) ==
    /\ Running
    /\ client[c].pc = "bcast"
    /\ client' = [d \in Clients |->
                    IF d = c THEN [client[c] EXCEPT !.pc = "ret", !.ret = client[c].new_item]
                    ELSE IF d \in waiters[c] THEN [client[d] EXCEPT !.pc = "wlock"]
                    ELSE client[d]]
    /\ waiters' = [waiters EXCEPT ![c] = {}]
    /\ UNCHANGED <<other, item, cache, mutex, nalloc, hist>>

\* a hit that pushes the matched item without looking at its stamp
LoadFramePush(c) ==
    /\ Running
    /\ client[c].pc = "load_frame"
    /\ item' = [item EXCEPT ![client[c].found].last_used_frame = cache.cur_frame,
                            ![client[c].found].promote_next = client[c].promote_first]
    /\ client' = [client EXCEPT ![c].promote_first = client[c].found,
                                ![c].pc = AfterUse(c), ![c].kops = AfterUseOps(c)]
    /\ UNCHANGED <<other, cache, mutex, waiters, nalloc, hist>>

\* lines 557-558: the first load of last_used_frame of the matched item
LoadFrame(c) ==
    /\ Running
    /\ client[c].pc = "load_frame"
    /\ client' = IF item[client[c].found].last_used_frame # cache.cur_frame
                 THEN [client EXCEPT ![c].pc = "xchg"]
                 ELSE [client EXCEPT ![c].pc = AfterUse(c), ![c].kops = AfterUseOps(c)]
    /\ UNCHANGED <<other, item, cache, mutex, waiters, nalloc, hist>>

\* the exchange of lines 559-564 with the push made whatever it returned
XchgAlwaysPush(c) ==
    /\ Running
    /\ client[c].pc = "xchg"
    /\ LET f == client[c].found
       IN  /\ item' = [item EXCEPT ![f].last_used_frame = cache.cur_frame,
                                   ![f].promote_next = client[c].promote_first]
           /\ client' = [client EXCEPT ![c].promote_first = f, ![c].pc = AfterUse(c),
                                           ![c].kops = AfterUseOps(c)]
    /\ UNCHANGED <<other, cache, mutex, waiters, nalloc, hist>>

\* lines 559-564: the exchange decides who promotes; the winner pushes the
\* item on its own promote list
Xchg(c) ==
    /\ Running
    /\ client[c].pc = "xchg"
    /\ LET f == client[c].found
           last_used == item[f].last_used_frame
       IN  IF last_used # cache.cur_frame
           THEN /\ item' = [item EXCEPT ![f].last_used_frame = cache.cur_frame,
                                        ![f].promote_next = client[c].promote_first]
                /\ client' = [client EXCEPT ![c].promote_first = f, ![c].pc = AfterUse(c),
                                                ![c].kops = AfterUseOps(c)]
           ELSE /\ item' = [item EXCEPT ![f].last_used_frame = cache.cur_frame]
                /\ client' = [client EXCEPT ![c].pc = AfterUse(c),
                                                ![c].kops = AfterUseOps(c)]
    /\ UNCHANGED <<other, cache, mutex, waiters, nalloc, hist>>

\* lines 567-568: the prepared item lost the race; its key is released
KeyRel(c) ==
    /\ Running
    /\ client[c].pc = "keyrel"
    /\ Install(In(KeyDestruct(In([St EXCEPT !.client[c].pc = "chk_size",
                                             !.client[c].kops = Append(@, "destruct")],
                                  "get"),
                              client[c].key, MaxItems), "none"))
    /\ UNCHANGED <<mutex, waiters, nalloc>>

\* free(new_item) of lines 582-584
FreeNew(it, c) ==
    IF client[c].new_item = NULL THEN it
    ELSE [it EXCEPT ![client[c].new_item] = FreedItem]

\* ChkSize returning the matched item without the construction barrier
ChkSizeNoWait(c) ==
    /\ Running
    /\ client[c].pc = "chk_size"
    /\ item' = FreeNew(item, c)
    /\ client' = [client EXCEPT ![c].pc = "ret", ![c].ret = client[c].found]
    /\ UNCHANGED <<other, cache, mutex, waiters, nalloc, hist>>

\* line 573 (and 582-587 when the size is already published)
ChkSize(c) ==
    /\ Running
    /\ client[c].pc = "chk_size"
    /\ IF item[client[c].found].size # 0
       THEN /\ item' = FreeNew(item, c)
            /\ client' = [client EXCEPT ![c].pc = "ret", ![c].ret = client[c].found]
       ELSE /\ client' = [client EXCEPT ![c].pc = "wlock"]
            /\ UNCHANGED item
    /\ UNCHANGED <<other, cache, mutex, waiters, nalloc, hist>>

\* line 574, and the re-acquisition of the mutex when pthread_cond_wait returns
WLock(c) ==
    /\ Running
    /\ client[c].pc = "wlock"
    /\ LET cc == item[client[c].found].creating_client
       IN  /\ mutex[cc] = NULL
           /\ mutex' = [mutex EXCEPT ![cc] = c]
    /\ client' = [client EXCEPT ![c].pc = "wtest"]
    /\ UNCHANGED <<other, item, cache, waiters, nalloc, hist>>

\* lines 576-587: the test of the wait loop under the creating client's mutex;
\* pthread_cond_wait releases the mutex and sleeps in one step
WTest(c) ==
    /\ Running
    /\ client[c].pc = "wtest"
    /\ LET cc == item[client[c].found].creating_client
       IN  /\ mutex' = [mutex EXCEPT ![cc] = NULL]
           /\ IF item[client[c].found].size # 0
              THEN /\ item' = FreeNew(item, c)
                   /\ client' = [client EXCEPT ![c].pc = "ret", ![c].ret = client[c].found]
                   /\ UNCHANGED waiters
              ELSE /\ waiters' = [waiters EXCEPT ![cc] = @ \cup {c}]
                   /\ client' = [client EXCEPT ![c].pc = "sleep", ![c].waited = TRUE]
                   /\ UNCHANGED item
    /\ UNCHANGED <<other, cache, nalloc, hist>>

\* ass_cache_get returns (lines 587, 598, 654).  History only: the caller
\* holds the value, and the run's gets are recorded.
Return(c) ==
    /\ Running
    /\ client[c].pc = "ret"
    /\ LET v == client[c].ret
           entry == [key |-> client[c].key.id, ret |-> v, hit |-> client[c].found # NULL]
           keep == hist.own /\ v # NULL /\ hist.got[v] < MaxHeld
       IN  hist' = [hist EXCEPT
                       !.got = IF keep THEN [@ EXCEPT ![v] = @ + 1] ELSE @,
                       !.trace = IF hist.track THEN Append(@, entry) ELSE @]
    /\ client' = [client EXCEPT ![c] = [attached |-> TRUE, idx |-> client[c].idx,
                                         promote_first |-> client[c].promote_first]
                                        @@ IdleLocals]
    /\ UNCHANGED <<other, item, cache, mutex, waiters, nalloc>>

\* ---- ass_cache_cut ------------------------------------------------------
CutSizes == {0, Contribution(MaxSize), MaxItems * Contribution(MaxSize)}

\* lines 703-716: drain the promote list of client c; every promoted item is
\* unlinked from the queue and linked again at the tail
RECURSIVE DrainClient(_, _, _)
DrainClient(S, c, n) ==
    LET i == S.client[c].promote_first IN
    IF i = NULL THEN S
    ELSE IF n = 0 \/ i = GARBAGE THEN SetUB(S)
    ELSE IF S.item[i].st # "live" THEN SetUB(S)
    ELSE
      LET \* *item->queue_prev = item->queue_next;
          S1 == SetLink(S, S.item[i].queue_prev, S.item[i].queue_next)
          qn == S1.item[i].queue_next
          \* if (item->queue_next) item->queue_next->queue_prev = item->queue_prev;
          S2 == IF qn = NULL THEN S1
                ELSE IF S1.item[qn].st # "live" THEN SetUB(S1)
                ELSE [S1 EXCEPT !.item[qn].queue_prev = S1.item[i].queue_prev]
          \* item->queue_next = NULL; item->queue_prev = cache->queue_last;
          S3 == [S2 EXCEPT !.item[i].queue_next = NULL,
                           !.item[i].queue_prev = S2.cache.queue_last]
          \* *cache->queue_last = item;
          S4 == SetLink(S3, S3.cache.queue_last, i)
          \* cache->queue_last = &item->queue_next;
          \* client->promote_first = item->promote_next;
          S5 == [S4 EXCEPT !.cache.queue_last = QNextLink(i),
                           !.client[c].promote_first = S4.item[i].promote_next]
      IN  IF S5.hist.ub THEN S5 ELSE DrainClient(S5, c, n - 1)

\* lines 698-717: the clients of the table, in slot order; empty slots skipped
RECURSIVE DrainAll(_, _)
DrainAll(S, idx) ==
    IF idx >= S.cache.n_clients \/ S.hist.ub THEN S
    ELSE IF S.cache.clients[idx] = NULL THEN DrainAll(S, idx + 1)
    ELSE DrainAll(DrainClient(S, S.cache.clients[idx], MaxItems + 1), idx + 1)

\* Evict leaving the item in its bucket chain
EvictKeepsChain(S, i) ==
    LET qn == S.item[i].queue_next
        qp == S.item[i].queue_prev
        S1 == IF qn # NULL
              THEN IF S.item[qn].st # "live" THEN SetUB(S)
                   ELSE SetLink([S EXCEPT !.item[qn].queue_prev = qp], qp, qn)
              ELSE [S EXCEPT !.cache.queue_last = qp]
        S2 == [S1 EXCEPT !.cache.queue_first = S1.item[i].queue_next]
        S5 == [S2 EXCEPT !.item[i].queue_prev = NoLink, !.item[i].queue_next = NULL,
                         !.cache.cache_size = @ - Contribution(S2.item[i].size)]
    IN  IF S5.hist.ub THEN S5
        ELSE DecRefItem([S5 EXCEPT !.hist.last.evicted = @ \cup {i}], i, MaxItems)

\* Evict subtracting the reported size only, without the header bytes
EvictSizeOnly(S, i) ==
    LET qn == S.item[i].queue_next
        qp == S.item[i].queue_prev
        S1 == IF qn # NULL
              THEN IF S.item[qn].st # "live" THEN SetUB(S)
                   ELSE SetLink([S EXCEPT !.item[qn].queue_prev = qp], qp, qn)
              ELSE [S EXCEPT !.cache.queue_last = qp]
        S2 == [S1 EXCEPT !.cache.queue_first = S1.item[i].queue_next]
        nx == S2.item[i].next
        S3 == IF nx = NULL THEN S2
              ELSE IF S2.item[nx].st # "live" THEN SetUB(S2)
              ELSE [S2 EXCEPT !.item[nx].prev = S2.item[i].prev]
        S4 == SetLink(S3, S3.item[i].prev, S3.item[i].next)
        S5 == [S4 EXCEPT !.item[i].next = NULL, !.item[i].prev = NoLink,
                         !.item[i].queue_prev = NoLink, !.item[i].queue_next = NULL,
                         !.cache.cache_size = @ - S4.item[i].size]
    IN  IF S5.hist.ub THEN S5
        ELSE DecRefItem([S5 EXCEPT !.hist.last.evicted = @ \cup {i}], i, MaxItems)

\* lines 728-749: unlink item i, the queue head, from the queue and from its
\* bucket chain, subtract its contribution and drop the cache's reference
Evict(S, i) ==
    LET qn == S.item[i].queue_next
        qp == S.item[i].queue_prev
        S1 == IF qn # NULL
              THEN IF S.item[qn].st # "live" THEN SetUB(S)
                   ELSE SetLink([S EXCEPT !.item[qn].queue_prev = qp], qp, qn)
              ELSE [S EXCEPT !.cache.queue_last = qp]
        S2 == [S1 EXCEPT !.cache.queue_first = S1.item[i].queue_next]
        nx == S2.item[i].next
        S3 == IF nx = NULL THEN S2
              ELSE IF S2.item[nx].st # "live" THEN SetUB(S2)
              ELSE [S2 EXCEPT !.item[nx].prev = S2.item[i].prev]
        S4 == SetLink(S3, S3.item[i].prev, S3.item[i].next)
        S5 == [S4 EXCEPT !.item[i].next = NULL, !.item[i].prev = NoLink,
                         !.item[i].queue_prev = NoLink, !.item[i].queue_next = NULL,
                         !.cache.cache_size = @ - Contribution(S4.item[i].size)]
    IN  IF S5.hist.ub THEN S5
        ELSE DecRefItem([S5 EXCEPT !.hist.last.evicted = @ \cup {i}], i, MaxItems)

RECURSIVE EvictLoop(_, _, _)

\* the eviction loop without the current-frame barrier
EvictLoopNoPin(S, max_size, n) ==
    LET i == S.cache.queue_first IN
    IF S.hist.ub \/ ~(S.cache.cache_size > max_size /\ i # NULL) THEN S
    ELSE IF n = 0 \/ S.item[i].st # "live" THEN SetUB(S)
    ELSE EvictLoop(Evict(S, i), max_size, n - 1)

\* the eviction loop without the test of cache_size against max_size
RECURSIVE EvictLoopAll(_, _, _)
EvictLoopAll(S, max_size, n) ==
    LET i == S.cache.queue_first IN
    IF S.hist.ub \/ i = NULL THEN S
    ELSE IF n = 0 \/ S.item[i].st # "live" THEN SetUB(S)
    ELSE IF S.item[i].last_used_frame = S.cache.cur_frame THEN S
    ELSE EvictLoopAll(Evict(S, i), max_size, n - 1)

\* lines 719-750: evict from the queue head while over budget, stopping at the
\* first item used in the current frame
EvictLoop(S, max_size, n) ==
    LET i == S.cache.queue_first IN
    IF S.hist.ub \/ ~(S.cache.cache_size > max_size /\ i # NULL) THEN S
    ELSE IF n = 0 \/ S.item[i].st # "live" THEN SetUB(S)
    ELSE IF S.item[i].last_used_frame = S.cache.cur_frame THEN S
    ELSE EvictLoop(Evict(S, i), max_size, n - 1)

\* ass_cache_cut without the increment of line 752
CutOpKeepsFrame(S, max_size) ==
    LET S0 == [S EXCEPT !.hist.last = [op |-> "cut", max |-> max_size,
                                       frame |-> S.cache.cur_frame, evicted |-> {}],
                        !.hist.trace = <<>>,
                        !.hist.kcons = [k \in Keys |-> 0]]
    IN  EvictLoop(DrainAll(S0, 0), max_size, MaxItems + 1)

\* ass_cache_cut(cache, max_size), lines 696-753
CutOp(S, max_size) ==
    LET S0 == [S EXCEPT !.hist.last = [op |-> "cut", max |-> max_size,
                                       frame |-> S.cache.cur_frame, evicted |-> {}],
                        !.hist.trace = <<>>,
                        !.hist.kcons = [k \in Keys |-> 0]]
        S1 == EvictLoop(DrainAll(S0, 0), max_size, MaxItems + 1)
    IN  [S1 EXCEPT !.cache.cur_frame = @ + 1]

\* The renderer calls cut at a frame boundary, from one thread, with no get
\* in flight.
Cut(max_size, maxFrame) ==
    /\ Running
    /\ AllIdle
    /\ cache.cur_frame < maxFrame
    /\ Install(In(CutOp(In(St, "cut"), max_size), "none"))
    /\ UNCHANGED <<mutex, waiters, nalloc>>

\* ---- ass_cache_empty, ass_cache_done ------------------------------------
\* the walk of a bucket chain destroying every item, whatever its count
RECURSIVE EmptyChainDestroy(_, _, _)
EmptyChainDestroy(S, i, n) ==
    IF i = NULL \/ S.hist.ub THEN S
    ELSE IF n = 0 \/ S.item[i].st # "live" THEN SetUB(S)
    ELSE
      LET next == S.item[i].next
          S1 == [S EXCEPT !.cache.cache_size = @ - Contribution(S.item[i].size)]
      IN  EmptyChainDestroy(DestroyItem(S1, i, MaxItems), next, n - 1)

\* the walk of a bucket chain dropping the cache's reference of every item
\* without clearing the item's links first (lines 763-767 left out)
RECURSIVE EmptyChainKeepsLinks(_, _, _)
EmptyChainKeepsLinks(S, i, n) ==
    IF i = NULL \/ S.hist.ub THEN S
    ELSE IF n = 0 \/ S.item[i].st # "live" THEN SetUB(S)
    ELSE
      LET next == S.item[i].next
          S1 == [S EXCEPT !.cache.cache_size = @ - Contribution(S.item[i].size)]
      IN  EmptyChainKeepsLinks(DecRefItem(S1, i, MaxItems), next, n - 1)

\* lines 759-774: the items of one bucket chain, from item i on
RECURSIVE EmptyChain(_, _, _)
EmptyChain(S, i, n) ==
    IF i = NULL \/ S.hist.ub THEN S
    ELSE IF n = 0 \/ S.item[i].st # "live" THEN SetUB(S)
    ELSE
      LET next == S.item[i].next
          S1 == [S EXCEPT !.item[i].next = NULL, !.item[i].prev = NoLink,
                          !.item[i].queue_prev = NoLink, !.item[i].queue_next = NULL,
                          !.item[i].promote_next = NULL,
                          !.cache.cache_size = @ - Contribution(S.item[i].size)]
      IN  EmptyChain(DecRefItem(S1, i, MaxItems), next, n - 1)

\* the walk of the buckets leaving the bucket heads in place
RECURSIVE EmptyBucketsKeepsHead(_, _)
EmptyBucketsKeepsHead(S, b) ==
    IF b >= Buckets \/ S.hist.ub THEN S
    ELSE EmptyBucketsKeepsHead(EmptyChain(S, S.cache.map[b], MaxItems + 1), b + 1)

\* lines 757-776
RECURSIVE EmptyBuckets(_, _)
EmptyBuckets(S, b) ==
    IF b >= Buckets \/ S.hist.ub THEN S
    ELSE EmptyBuckets([EmptyChain(S, S.cache.map[b], MaxItems + 1)
                          EXCEPT !.cache.map[b] = NULL], b + 1)

\* ass_cache_empty without the reset of the clients' promote lists
EmptyOpKeepsPromote(S) ==
    LET S1 == EmptyBuckets(S, 0)
    IN  [S1 EXCEPT !.cache.queue_first = NULL, !.cache.queue_last = QFirstLink,
                   !.cache.cache_size = 0,
                   !.hist.trace = <<>>,
                   !.hist.kcons = [k \in Keys |-> 0],
                   !.hist.last = [NoOp EXCEPT !.op = "empty", !.frame = S.cache.cur_frame]]

\* ass_cache_empty(cache), lines 755-789
EmptyOp(S) ==
    LET S1 == EmptyBuckets(S, 0)
    IN  [S1 EXCEPT !.cache.queue_first = NULL, !.cache.queue_last = QFirstLink,
                   !.cache.cache_size = 0,
                   !.client = [c \in Clients |->
                                 IF \E idx \in 0..(S1.cache.n_clients - 1) :
                                       S1.cache.clients[idx] = c
                                 THEN [S1.client[c] EXCEPT !.promote_first = NULL]
                                 ELSE S1.client[c]],
                   !.hist.trace = <<>>,
                   !.hist.kcons = [k \in Keys |-> 0],
                   !.hist.last = [NoOp EXCEPT !.op = "empty", !.frame = S.cache.cur_frame]]

Empty ==
    /\ Running
    /\ AllIdle
    /\ Install(In(EmptyOp(In(St, "empty")), "none"))
    /\ UNCHANGED <<mutex, waiters, nalloc>>

\* ass_cache_done(cache), lines 791-800: empty, then the map, the client
\* table and the cache record are freed
Done ==
    /\ Running
    /\ AllIdle
    /\ Install(In([EmptyOp(In(St, "done")) EXCEPT !.cache.alive = FALSE], "none"))
    /\ UNCHANGED <<mutex, waiters, nalloc>>

\* ---- the second cache --------------------------------------------------
\* The code of ass_cache.c serves every cache.  An operation on the second
\* cache is the operation applied with the two caches exchanged.
Swap(S) ==
    [S EXCEPT !.cache = S.other.cache, !.client = S.other.client,
              !.other = [cache |-> S.cache, client |-> S.client]]

\* history of the first cache, untouched by an operation R on the second
KeepHist(S, R) ==
    [R EXCEPT !.hist.last = S.hist.last, !.hist.trace = S.hist.trace,
              !.hist.kcons = S.hist.kcons]

\* ass_cache_get(client, key, priv), lines 537-655, run to its return by the
\* only thread of the cache; i is the item malloc hands out on a miss and sz
\* the size construct_func reports
GetOp(S, c, key, i, sz) ==
    LET b == Bucket(key)
        start == S.cache.map[b]
        found == ScanChain(S.item, start, NULL, key, MaxItems + 1)
    IN  IF ScanReadsFreed(S.item, start, NULL, key, MaxItems + 1) THEN SetUB(S)
        ELSE IF found # NULL
        THEN IF S.item[found].last_used_frame # S.cache.cur_frame
             THEN [S EXCEPT !.item[found].last_used_frame = S.cache.cur_frame,
                            !.item[found].promote_next = S.client[c].promote_first,
                            !.client[c].promote_first = found]
             ELSE S
        ELSE
          LET new == [NewItem(c, key) EXCEPT !.desc = S.cache.desc,
                                             !.last_used_frame = S.cache.cur_frame,
                                             !.next = start, !.prev = BucketLink(b)]
              S1 == KeyMove([S EXCEPT !.item[i] = new, !.cache.map[b] = i], key)
              S2 == IF start = NULL THEN S1
                    ELSE [S1 EXCEPT !.item[start].prev = NextLink(i)]
              old_last == S2.cache.queue_last
              S3 == SetLink([S2 EXCEPT !.cache.queue_last = QNextLink(i),
                                       !.item[i].queue_prev = old_last], old_last, i)
          IN  [S3 EXCEPT !.item[i].size = sz,
                         !.cache.cache_size = @ + Contribution(sz),
                         !.hist.ncons[i] = @ + 1]

\* the items stored in the bucket chains of the second cache
OtherStored ==
    UNION {Range(ChainFrom(item, other.cache.map[b], MaxItems + 1)) :
              b \in DOMAIN other.cache.map}

\* ass_cache_get on the second cache, between the gets of the first; the key
\* may embed a value the caller holds
OtherGet(key, maxItems) ==
    /\ Running
    /\ AllIdle
    /\ other.cache.alive
    /\ key.ref # NULL => item[key.ref].st = "live" /\ item[key.ref].size # 0
    /\ LET miss == ScanChain(item, other.cache.map[Bucket(key)], NULL, key,
                             MaxItems + 1) = NULL
       IN  /\ miss => nalloc < maxItems
           /\ \E sz \in Sizes :
                 Install(KeepHist(St, Swap(GetOp(Swap(St), 1, key, nalloc + 1, sz))))
           /\ nalloc' = IF miss /\ ~hist'.ub THEN nalloc + 1 ELSE nalloc
    /\ UNCHANGED <<mutex, waiters>>

\* ass_cache_cut on the second cache
OtherCut(max_size, maxFrame) ==
    /\ Running
    /\ AllIdle
    /\ other.cache.alive
    /\ other.cache.cur_frame < maxFrame
    /\ Install(KeepHist(St, In(Swap(CutOp(Swap(In(St, "cut_other")), max_size)), "none")))
    /\ UNCHANGED <<mutex, waiters, nalloc>>

\* ass_cache_empty on the second cache
OtherEmpty ==
    /\ Running
    /\ AllIdle
    /\ other.cache.alive
    /\ Install(KeepHist(St, In(Swap(EmptyOp(Swap(In(St, "empty_other")))), "none")))
    /\ UNCHANGED <<mutex, waiters, nalloc>>

\* ---- references taken and dropped by holders outside the cache ----------
\* The holder is the thread that calls get: its inc_ref and dec_ref calls fall
\* between its gets.
\* ass_cache_inc_ref(value) on a value the caller can reach
IncRef(i) ==
    /\ ~hist.ub
    /\ AllIdle
    /\ item[i].st = "live" /\ item[i].size # 0
    /\ hist.held[i] < MaxHeld
    /\ Install(CacheIncRef([St EXCEPT !.hist.held[i] = @ + 1], i))
    /\ UNCHANGED <<mutex, waiters, nalloc>>

\* ass_cache_dec_ref(value) that balances an earlier inc_ref
DecRef(i) ==
    /\ ~hist.ub
    /\ AllIdle
    /\ item[i].st = "live"
    /\ hist.held[i] > 0
    /\ Install(In(CacheDecRef(In([St EXCEPT !.hist.held[i] = @ - 1,
                                              !.hist.dropped[i] = TRUE],
                                  IF cache.alive THEN "dec_ref" ELSE "dec_ref_after_done"),
                               i, MaxItems), "none"))
    /\ UNCHANGED <<mutex, waiters, nalloc>>

\* ass_cache_dec_ref(value) on a value obtained from get, with no inc_ref
\* behind it.  A handle whose item has been freed is not followed: the
\* dec_ref would read freed memory.
DecRefGot(i) ==
    /\ ~hist.ub
    /\ AllIdle
    /\ item[i].st = "live"
    /\ hist.got[i] > 0
    /\ Install(In(CacheDecRef(In([St EXCEPT !.hist.got[i] = @ - 1,
                                              !.hist.unmatched = TRUE],
                                  IF cache.alive THEN "dec_ref" ELSE "dec_ref_after_done"),
                               i, MaxItems), "none"))
    /\ UNCHANGED <<mutex, waiters, nalloc>>

\* ---- specifications -----------------------------------------------------
InitWith(n, own, track) ==
    /\ item = [i \in Items |-> UnusedItem]
    /\ cache = InitCache(n)
    /\ client = [c \in Clients |-> InitClient(c, n)]
    /\ mutex = [c \in Clients |-> NULL]
    /\ waiters = [c \in Clients |-> {}]
    /\ nalloc = 0
    /\ other = InitOther
    /\ hist = InitHist(own, track)

\* ass_cache_get as the only thread of the cache runs it.  An item it matches
\* was constructed by an earlier call of the same thread, so the barrier of
\* lines 573-580 is not entered.
GetStepAlone(c, keys, maxItems) ==
    \/ \E key \in keys : GetCall(c, key, maxItems)
    \/ AllocFail(c)
    \/ Alloc(c)
    \/ Cas(c)
    \/ QXchg(c)
    \/ QLink(c)
    \/ Construct(c)
    \/ PLock(c)
    \/ PStore(c)
    \/ Bcast(c)
    \/ LoadFrame(c)
    \/ Xchg(c)
    \/ ChkSize(c)
    \/ Return(c)

\* ass_cache_get with other threads in the cache
GetStep(c, keys, maxItems) ==
    \/ GetStepAlone(c, keys, maxItems)
    \/ WLock(c)
    \/ WTest(c)

\* Several clients use one cache between frame boundaries.
Init == InitWith(NClients, FALSE, FALSE)

Next ==
    \/ \E c \in Clients : GetStep(c, {Key(n, NULL) : n \in 1..ConcKeys}, MaxItems)
    \/ \E m \in CutSizes : Cut(m, ConcFrame)
    \/ Empty

Spec == Init /\ [][Next]_vars

\* One client, runs of gets with no intervening cut or empty, recorded; a
\* frame boundary that evicts nothing ends a run and begins the next.
RunFrame == 1

InitRun == InitWith(1, FALSE, TRUE)

NextRun ==
    \/ GetStepAlone(1, PlainKeys, MaxItems)
    \/ Cut(MaxItems * Contribution(MaxSize), RunFrame)

SpecRun == InitRun /\ [][NextRun]_vars

\* One client at a time: gets, frame boundaries and empty.
InitSeq == InitWith(1, FALSE, FALSE)

NextSeq ==
    \/ GetStepAlone(1, PlainKeys, MaxItems)
    \/ \E m \in CutSizes : Cut(m, MaxFrame)
    \/ Empty

SpecSeq == InitSeq /\ [][NextSeq]_vars

\* ---- the claims ---------------------------------------------------------
RECURSIVE SumOver(_, _)
SumOver(f, S) ==
    IF S = {} THEN 0
    ELSE LET x == CHOOSE y \in S : TRUE IN f[x] + SumOver(f, S \ {x})

Returned(c) == client[c].pc = "ret" /\ client[c].ret # NULL

\* C1: concurrent gets with equal keys on a cache that does not store the key
\* invoke construct_func once in total (at most once per key between frame
\* boundaries, and once for the item returned), and all return the same value.
C1_OneConstructionPerKey ==
    /\ \A k \in Keys : hist.kcons[k] <= 1
    /\ \A c \in Clients : Returned(c) =>
          /\ hist.ncons[client[c].ret] = 1
          /\ item[client[c].ret].st = "live"
          /\ Compare(item[client[c].ret].key, client[c].key)
    /\ \A c, d \in Clients :
          Returned(c) /\ Returned(d) /\ Compare(client[c].key, client[d].key)
             => client[c].ret = client[d].ret

\* two gets of one key raced: one inserted and constructed, the other had
\* prepared an item of its own, lost the insertion and got the same value
C1_Witness ==
    \E c, d \in Clients :
       /\ c # d /\ Returned(c) /\ Returned(d)
       /\ client[c].ret = client[d].ret
       /\ client[c].new_item = client[c].ret
       /\ client[d].new_item # NULL /\ client[d].new_item # client[d].ret
       /\ hist.kcons[client[c].key.id] = 1

TraceOk == {a \in DOMAIN hist.trace : hist.trace[a].ret # NULL}

\* C2: in a run of gets with no cut or empty, a get whose key equals that of
\* an earlier successful get is a hit returning the same value; once the run
\* is at rest construct_func has run once per successful miss, every other
\* successful get being a hit, and in a run on a cache that began empty it
\* has run once per distinct key obtained.
C2_MemoisedRun ==
    /\ \A a, b \in DOMAIN hist.trace :
          a < b /\ hist.trace[a].ret # NULL /\ hist.trace[a].key = hist.trace[b].key
             => hist.trace[b].ret = hist.trace[a].ret /\ hist.trace[b].hit
    /\ AllIdle =>
          /\ \A k \in Keys : hist.kcons[k] <= 1
          /\ Cardinality({a \in TraceOk : hist.trace[a].hit})
                = Cardinality(TraceOk) - SumOver(hist.kcons, Keys)
          /\ cache.cur_frame = 0 =>
                SumOver(hist.kcons, Keys) = Cardinality({hist.trace[a].key : a \in TraceOk})

\* the run 1,2,1,3,2: three constructions and two hits
C2_Witness ==
    /\ AllIdle /\ cache.cur_frame = 0
    /\ [a \in DOMAIN hist.trace |-> hist.trace[a].key] = <<1, 2, 1, 3, 2>>
    /\ [a \in DOMAIN hist.trace |-> hist.trace[a].hit] = <<FALSE, FALSE, TRUE, FALSE, TRUE>>
    /\ SumOver(hist.ncons, Items) = 3
    /\ hist.trace[3].ret = hist.trace[1].ret /\ hist.trace[5].ret = hist.trace[2].ret

IsCutStep == cache'.cur_frame = cache.cur_frame + 1

\* C3: a cut leaves every item that was used in the frame it ends stored in
\* its bucket chain, alive and with its reference count untouched.
C3_CutSparesCurrentFrame ==
    [][IsCutStep =>
          \A i \in Stored :
             item[i].last_used_frame = cache.cur_frame
                => /\ i \in Stored'
                   /\ item'[i].st = "live"
                   /\ item'[i].ref_count = item[i].ref_count
                   /\ hist'.ndestr[i] = 0]_vars

\* a cut with budget 0 evicted an older item and left one used in the frame
C3_Witness ==
    /\ hist.last.op = "cut" /\ hist.last.max = 0
    /\ hist.last.evicted # {}
    /\ \E i \in Stored : item[i].last_used_frame = hist.last.frame
    /\ cache.cache_size > 0

\* C4: after cut(M), cache_size <= M or every item still stored was used in
\* the frame the cut ended.
C4_CutPostcondition ==
    hist.last.op = "cut" =>
       \/ cache.cache_size <= hist.last.max
       \/ \A i \in Stored : item[i].last_used_frame = hist.last.frame

StoredSize == [i \in Items |->
                 IF i \in Stored
                 THEN IF item[i].size = 1 THEN 1 ELSE item[i].size + CACHE_ITEM_SIZE
                 ELSE 0]

\* C5: with no get in progress, cache_size is the sum of the contributions of
\* the items in the bucket chains: size for an item of size 1, and
\* size + CACHE_ITEM_SIZE otherwise.
C5_SizeIsSumOfContributions ==
    AllIdle => cache.cache_size = SumOver(StoredSize, Items)

\* an item has been evicted and destructed, and items of size 1 and of a
\* larger size are stored
C5_Witness ==
    /\ AllIdle
    /\ \E e \in Items : hist.ndestr[e] = 1 /\ e \notin Stored
    /\ \E i, j \in Stored : item[i].size = 1 /\ item[j].size > 1
    /\ cache.cache_size = 1 + MaxSize + CACHE_ITEM_SIZE

\* C10: a get that returns a value returns it with the item's size published
\* (>= 1) and the constructor finished, also when it matched the item while
\* it was under construction.
C10_ReturnedValueIsConstructed ==
    \A c \in Clients : Returned(c) =>
       item[client[c].ret].size >= 1 /\ hist.ncons[client[c].ret] = 1

\* a reader that slept on the barrier of another client's construction returned
C10_Witness ==
    \E c \in Clients :
       /\ Returned(c) /\ client[c].waited
       /\ item[client[c].ret].creating_client # c

\* One client; the values get returns are held outside, references are taken
\* with inc_ref and dropped with dec_ref, the cache is cut, emptied and shut down.
RefKeys == 2
RefFrame == 1

InitRef == InitWith(1, TRUE, FALSE)

NextRef ==
    \/ GetStepAlone(1, {Key(n, NULL) : n \in 1..RefKeys}, MaxItems)
    \/ \E m \in {0, MaxItems * Contribution(MaxSize)} : Cut(m, RefFrame)
    \/ Empty
    \/ Done
    \/ \E i \in Items : IncRef(i)
    \/ \E i \in Items : DecRef(i)
    \/ \E i \in Items : DecRefGot(i)

SpecRef == InitRef /\ [][NextRef]_vars

\* ---- claims about references --------------------------------------------
\* a step of ass_cache_get by some client
IsGetStep ==
    \E c \in Clients : client'[c] # client[c] /\ (~Idle(c) \/ client'[c].pc # "idle")

Reachable ==
    Stored \cup Range(Queue) \cup UNION {Range(PromoteList(c)) : c \in Clients}

NoStoredItemDestructed ==
    \A i \in Reachable : item[i].st = "live" /\ item[i].ref_count >= 1

IsLastDecRef(i) ==
    /\ i \in Stored /\ item[i].st = "live" /\ item[i].ref_count = 1
    /\ hist'.got[i] < hist.got[i] \/ hist'.held[i] < hist.held[i]

LiveKeys == 2
LiveItems == 3
LiveFrame == 1

LiveKeySet == {Key(n, NULL) : n \in 2..(1 + LiveKeys)}

\* the steps of a call of ass_cache_get after its entry
GetProgress(c) ==
    \/ AllocFail(c)
    \/ Alloc(c)
    \/ Cas(c)
    \/ QXchg(c)
    \/ QLink(c)
    \/ Construct(c)
    \/ PLock(c)
    \/ PStore(c)
    \/ Bcast(c)
    \/ LoadFrame(c)
    \/ Xchg(c)
    \/ ChkSize(c)
    \/ WLock(c)
    \/ WTest(c)
    \/ Return(c)

InitLive == InitWith(NClients, FALSE, FALSE)

NextLive ==
    \/ \E c \in Clients : GetStep(c, LiveKeySet, LiveItems)
    \/ \E m \in {0, MaxItems * Contribution(MaxSize)} : Cut(m, LiveFrame)

SpecLive ==
    InitLive /\ [][NextLive]_vars /\ \A c \in Clients : WF_vars(GetProgress(c))

\* the client is at the construction barrier: asleep on the condition
\* variable, or waiting for the creating client's mutex
AtBarrier(c) == client[c].pc \in {"sleep", "wlock", "plock"}

\* C11: a reader asleep on the construction barrier of an item returns once
\* the constructor has published the size (no wake-up is lost), and a client
\* inside get that cannot take a step is at the barrier: get blocks nowhere
\* else.
C11_BarrierReleases ==
    /\ \A c \in Clients : (client[c].pc = "sleep") ~> Returned(c)
    /\ [](\A c \in Clients : ~Idle(c) /\ ~ENABLED GetProgress(c) => AtBarrier(c))

\* a reader that slept on the barrier has been woken, found the size
\* published under the mutex and is about to return; nobody is left asleep
C11_Witness ==
    \E c \in Clients :
       /\ Returned(c) /\ client[c].waited
       /\ item[client[c].ret].size >= 1
       /\ \A d \in Clients : waiters[d] = {} /\ mutex[d] = NULL

\* C12: after a cut (its promote-list drain and its evictions) the traversal
\* from queue_first visits every stored item exactly once, in non-decreasing
\* order of last_used_frame.
C12_DrainKeepsQueueOrdered ==
    hist.last.op = "cut" =>
       /\ Range(Queue) = Stored
       /\ Len(Queue) = Cardinality(Stored)
       /\ \A a, b \in DOMAIN Queue :
             a < b => item[Queue[a]].last_used_frame <= item[Queue[b]].last_used_frame

\* ---- two caches whose keys embed values of each other -----------------------
\* One thread: gets, cuts and empties on both caches.  A key of either cache
\* may embed a value the caller holds (as composite keys hold bitmaps, bitmap
\* keys outlines, outline keys outlines and fonts).
CrossKeys == 2
CrossFrame == 2

NextCross ==
    \/ GetStepAlone(1, {Key(n, NULL) : n \in 1..CrossKeys} \cup {Key(1, r) : r \in Items},
                    MaxItems)
    \/ \E m \in {0, MaxItems * Contribution(MaxSize)} : Cut(m, CrossFrame)
    \/ Empty
    \/ \E r \in Items : OtherGet(Key(1, r), MaxItems)
    \/ \E m \in {0, MaxItems * Contribution(MaxSize)} : OtherCut(m, CrossFrame)
    \/ OtherEmpty

InitCross == InitWith(1, FALSE, FALSE)

SpecCross == InitCross /\ [][NextCross]_vars

\* the live items stored in the second cache whose key embeds value b
HoldersOf(b) == {j \in OtherStored : item[j].st = "live" /\ item[j].key.ref = b}

\* those of them used in the current frame of the second cache
UsersOf(b) == {j \in HoldersOf(b) : item[j].last_used_frame = other.cache.cur_frame}

\* C13 (as stated): a cut with budget 0 on the first cache leaves a stored
\* item B stored and not destructed when an item C of the second cache, used
\* in the frame, holds B in its key.
C13_ReferencedItemStaysStored ==
    [][IsCutStep /\ hist'.last.max = 0 =>
          \A b \in Stored :
             UsersOf(b) # {} => /\ b \in Stored'
                                /\ item'[b].st = "live"
                                /\ hist'.ndestr[b] = 0]_vars

\* C13 (amended): a cut on the first cache does not destruct an item B that an
\* item C stored in the second cache holds in its key: B keeps a count >= 1
\* and stays valid, though the cut unlinks it from the first cache like any
\* item not used in that cache's current frame.  B is destructed only in a
\* step after which no stored item of the second cache holds it any more.
C13_ReferencedItemStaysAlive ==
    [][\A b \in Items :
          item[b].st = "live" /\ item[b].desc = "first" /\ HoldersOf(b) # {} =>
             /\ IsCutStep => /\ item'[b].st = "live"
                             /\ item'[b].ref_count >= 1
                             /\ hist'.ndestr[b] = 0
             /\ item'[b].st = "freed" =>
                   \A j \in HoldersOf(b) : item'[j].st = "freed"]_vars

\* a cut with budget 0 has unlinked B from the first cache; B is alive on the
\* one reference of the key of C, which is stored in the second cache and was
\* used in the frame
C13_Witness ==
    /\ hist.last.op = "cut" /\ hist.last.max = 0
    /\ \E b \in hist.last.evicted :
          /\ item[b].st = "live" /\ item[b].ref_count = 1 /\ b \notin Stored
          /\ hist.ndestr[b] = 0
          /\ UsersOf(b) # {}

\* the live items, of any cache, whose key embeds value b
KeyHolders(b) == {j \in Items : item[j].st = "live" /\ item[j].key.ref = b}

KeyTargets == 2      \* values of the second cache the keys may embed
KeyFrame == 1

\* ass_cache_get with other threads in the cache and keys that hold references
GetStepKey(c, keys, maxItems) ==
    \/ GetStep(c, keys, maxItems)
    \/ KeyRel(c)

InitKey == InitWith(NClients, FALSE, FALSE)

NextKey ==
    \/ \E c \in Clients : GetStepKey(c, {Key(1, r) : r \in 0..KeyTargets}, MaxItems)
    \/ \E m \in {0, MaxItems * Contribution(MaxSize)} : Cut(m, KeyFrame)
    \/ \E n \in 1..KeyTargets : OtherGet(Key(n, NULL), KeyTargets)

SpecKey == InitKey /\ [][NextKey]_vars

\* the outcome of a get that has reached its return
GetOutcome(c) ==
    IF client[c].ret = NULL THEN "failed"
    ELSE IF client[c].found = NULL THEN "stored"
    ELSE IF client[c].new_item # NULL THEN "lost_race"
    ELSE "hit"

\* C15: a get that returns has consumed its key once: moved into the item it
\* stored, moved into a prepared item and released from it after a lost race,
\* or abandoned on a hit or a failure.  The count of a value the keys embed is
\* one per stored item whose key holds it (plus the reference of its own
\* cache): storing a new item adds one; a hit, a lost race and a failure add
\* nothing.
C15_KeyConsumedOnce ==
    /\ \A c \in Clients : client[c].pc = "ret" =>
          client[c].kops = CASE GetOutcome(c) = "stored" -> <<"move">>
                             [] GetOutcome(c) = "lost_race" -> <<"move", "destruct">>
                             [] OTHER -> <<"drop">>
    /\ \A c \in Clients : Len(client[c].kops) <= 2
    /\ AllIdle => \A b \in Items : item[b].st = "live" /\ b \in OtherStored =>
          /\ KeyHolders(b) \subseteq Stored
          /\ item[b].ref_count = 1 + Cardinality(KeyHolders(b))

\* a get that lost the race to store a key embedding value b returns; the
\* winner's item is the one holder of b
C15_Witness ==
    \E c \in Clients :
       /\ client[c].pc = "ret" /\ GetOutcome(c) = "lost_race"
       /\ client[c].key.ref # NULL
       /\ item[client[c].key.ref].ref_count = 2
       /\ item[client[c].new_item].st = "freed"
       /\ client[c].kops = <<"move", "destruct">>

\* client c takes the miss path, fails on it, or returns from the failure
FailingGetStep(c) ==
    \/ client[c].pc = "idle" /\ client'[c].pc = "alloc"
    \/ client[c].pc = "alloc" /\ client'[c].pc = "ret"
    \/ client[c].pc = "ret" /\ client[c].ret = NULL /\ client'[c].pc = "idle"

\* C16: a get that fails to allocate or to move its key returns null after
\* abandoning the key once with key_move_func(NULL, key); it constructs
\* nothing, and none of its steps changes a bucket chain, the queue,
\* cache_size, a promote list, a last_used_frame or a ref_count.
C16_FailedGetChangesNothing ==
    [][\A c \in Clients :
          /\ client[c].pc = "alloc" /\ client'[c].pc = "ret" =>
                /\ client'[c].ret = NULL
                /\ client'[c].kops = <<"drop">>
                /\ client'[c].new_item = NULL
          /\ FailingGetStep(c) /\ ~hist'.ub =>
                /\ item' = item /\ cache' = cache /\ other' = other
                /\ nalloc' = nalloc
                /\ hist'.ncons = hist.ncons /\ hist'.kcons = hist.kcons
                /\ \A d \in Clients : client'[d].promote_first = client[d].promote_first]_vars

\* a failed get about to return null, its key embedding a value whose only
\* reference is its cache's, beside an item the cache keeps stored
C16_Witness ==
    \E c \in Clients :
       /\ client[c].pc = "ret" /\ client[c].ret = NULL
       /\ client[c].kops = <<"drop">>
       /\ client[c].key.ref # NULL /\ item[client[c].key.ref].ref_count = 1
       /\ Stored # {} /\ cache.cache_size > 0

\* ---- empty, with references held outside the cache ------------------------
EmptyKeys == 2
EmptyFrame == 2

InitEmpty == InitWith(1, FALSE, FALSE)

NextEmpty ==
    \/ GetStepAlone(1, {Key(n, NULL) : n \in 1..EmptyKeys}, MaxItems)
    \/ \E m \in {0, MaxItems * Contribution(MaxSize)} : Cut(m, EmptyFrame)
    \/ Empty
    \/ \E i \in Items : IncRef(i)
    \/ \E i \in Items : DecRef(i)

SpecEmpty == InitEmpty /\ [][NextEmpty]_vars

\* the step is an ass_cache_empty: it is recorded as the last operation and
\* was not a holder's inc_ref or dec_ref
IsEmptyStep ==
    /\ hist'.last.op = "empty"
    /\ hist'.held = hist.held

\* an item with no link left to the cache
Detached(it) ==
    /\ it.next = NULL /\ it.prev = NoLink
    /\ it.queue_next = NULL /\ it.queue_prev = NoLink
    /\ it.promote_next = NULL

\* C17: ass_cache_empty leaves every bucket empty, the queue empty
\* (queue_first null, queue_last pointing at queue_first), cache_size zero and
\* every attached client's promote list empty; each item that was stored is
\* decremented once: destructed if that was its last reference, otherwise
\* left alive and detached, to be destructed by its final dec_ref.
C17_EmptyDetachesEverything ==
    [][/\ IsEmptyStep =>
             /\ \A b \in DOMAIN cache'.map : cache'.map[b] = NULL
             /\ cache'.queue_first = NULL /\ cache'.queue_last = QFirstLink
             /\ cache'.cache_size = 0
             /\ \A c \in Clients : client'[c].attached => client'[c].promote_first = NULL
             /\ \A i \in Stored :
                   IF item[i].ref_count = 1
                   THEN /\ item'[i].st = "freed"
                        /\ hist'.ndestr[i] = hist.ndestr[i] + 1
                   ELSE /\ item'[i].st = "live" /\ Detached(item'[i])
                        /\ item'[i].ref_count = item[i].ref_count - 1
                        /\ hist'.ndestr[i] = hist.ndestr[i]
             /\ \A i \in Items \ Stored : item'[i] = item[i]
             /\ cache'.cur_frame = cache.cur_frame
       /\ \A i \in Items :
             /\ item[i].st = "live" /\ i \notin Stored /\ AllIdle
             /\ hist'.held[i] = hist.held[i] - 1
             => IF hist.held[i] = 1
                THEN item'[i].st = "freed" /\ hist'.ndestr[i] = 1
                ELSE item'[i].st = "live" /\ hist'.ndestr[i] = 0]_vars

\* after an empty that found two items stored, one of them referenced from
\* outside: that one is alive and detached, the other destructed
C17_Witness ==
    /\ hist.last.op = "empty"
    /\ Stored = {} /\ cache.cache_size = 0
    /\ \E i, j \in Items :
          /\ item[i].st = "live" /\ hist.held[i] = 1 /\ item[i].ref_count = 1
          /\ Detached(item[i])
          /\ item[j].st = "freed" /\ hist.dby[j] = "empty"

\* items malloc has handed out
Allocated == {i \in Items : item[i].st # "unused"}

\* C18: the cache is usable after empty.  A get returns an item that is
\* linked in its bucket chain and was constructed once, never one that an
\* empty or a cut unlinked, so a key stored before the empty is constructed
\* anew; at rest cache_size is the sum of the contributions of the stored
\* items; no item is destructed twice, and an item that is neither stored nor
\* referenced from outside has been destructed exactly once.
C18_ReusableAfterEmpty ==
    /\ [](\A c \in Clients : client[c].pc = "ret" /\ client[c].ret # NULL =>
             /\ item[client[c].ret].st = "live"
             /\ client[c].ret \in Stored
             /\ item[client[c].ret].prev # NoLink
             /\ hist.ncons[client[c].ret] = 1)
    /\ [](AllIdle => /\ cache.cache_size = SumOver(StoredSize, Items)
                     /\ \A i \in Allocated \ Stored :
                           IF hist.held[i] = 0
                           THEN item[i].st = "freed" /\ hist.ndestr[i] = 1
                           ELSE item[i].st = "live" /\ hist.ndestr[i] = 0)
    /\ [](\A i \in Items : hist.ndestr[i] <= 1 /\ (i \in Stored => hist.ndestr[i] = 0))
    /\ [][\A i \in Allocated \ Stored :
             (\A c \in Clients : client[c].new_item # i) => i \notin Stored']_vars

\* after an empty destructed one item and detached another, whose holder has
\* since dropped it, a get has stored a newly constructed item, the only
\* contribution to cache_size
C18_Witness ==
    \E i, j, k \in Items :
       /\ hist.dby[i] = "empty" /\ hist.dby[j] = "dec_ref"
       /\ hist.ndestr[i] = 1 /\ hist.ndestr[j] = 1
       /\ Stored = {k} /\ k > i /\ k > j
       /\ AllIdle /\ hist.ncons[k] = 1
       /\ cache.cache_size = Contribution(item[k].size)

\* the stored items whose key is key
StoredWithKey(key) == {i \in Stored : Compare(item[i].key, key)}

\* C19: clients calling get with distinct keys of one bucket.  Under fair
\* scheduling every call returns; a bucket chain never holds two items with
\* the same key; and a get that returns a value returns the one stored item
\* whose key equals the key asked for.
C19_SameBucketGetsComplete ==
    /\ \A c \in Clients : (~Idle(c)) ~> Idle(c)
    /\ [](\A key \in LiveKeySet : Cardinality(StoredWithKey(key)) <= 1)
    /\ [](\A c \in Clients : client[c].pc = "ret" /\ client[c].ret # NULL =>
             /\ Compare(item[client[c].ret].key, client[c].key)
             /\ StoredWithKey(client[c].key) = {client[c].ret}
             /\ Bucket(item[client[c].ret].key) = Bucket(client[c].key))

\* two clients return items of distinct keys of one bucket; the one that
\* prepared its item first was linked second, having lost the
\* compare-and-swap on the bucket head and retried
C19_Witness ==
    \E c, d \in Clients :
       /\ client[c].pc = "ret" /\ client[d].pc = "ret"
       /\ client[c].key # client[d].key
       /\ Bucket(client[c].key) = Bucket(client[d].key)
       /\ client[c].ret = client[c].new_item /\ client[d].ret = client[d].new_item
       /\ client[c].ret # NULL /\ client[d].ret # NULL
       /\ client[c].ret < client[d].ret
       /\ item[client[c].ret].next = client[d].ret
       /\ cache.map[Bucket(client[c].key)] = client[c].ret

\* ---- clients created and destroyed while the cache is in use --------------
\* lines 471-474: the first free slot of cache->clients, or one past the end
FreeSlot ==
    LET free == {s \in 0..(cache.n_clients - 1) : cache.clients[s] = NULL}
    IN  IF free = {} THEN cache.n_clients
        ELSE CHOOSE s \in free : \A t \in free : s <= t

\* ass_cache_client_create(cache), lines 462-512; when an allocation fails it
\* returns NULL and changes nothing
ClientCreate(c) ==
    /\ Running
    /\ ~client[c].attached
    /\ FreeSlot < NClients
    /\ client' = [client EXCEPT ![c] = [attached |-> TRUE, idx |-> FreeSlot,
                                         promote_first |-> NULL] @@ IdleLocals]
    /\ cache' = [cache EXCEPT !.clients[FreeSlot] = c,
                              !.n_clients = IF FreeSlot >= @ THEN FreeSlot + 1 ELSE @]
    /\ UNCHANGED <<other, item, mutex, waiters, nalloc, hist>>

\* ass_cache_client_done(client), lines 514-535, called by the client's thread
\* between its gets; the client record is freed
ClientDone(c) ==
    /\ Running
    /\ client[c].attached /\ Idle(c)
    /\ cache' = [cache EXCEPT !.clients[client[c].idx] = NULL]
    /\ client' = [client EXCEPT ![c] = [attached |-> FALSE, idx |-> 0,
                                         promote_first |-> NULL] @@ IdleLocals]
    /\ UNCHANGED <<other, item, mutex, waiters, nalloc, hist>>

FrameKeys == 1
FrameItems == 2
FrameMax == 2

InitFrame == InitWith(1, FALSE, FALSE)

NextFrame ==
    \/ \E c \in Clients : GetStep(c, {Key(n, NULL) : n \in 1..FrameKeys}, FrameItems)
    \/ \E m \in {0, MaxItems * Contribution(MaxSize)} : Cut(m, FrameMax)
    \/ Empty
    \/ \E i \in Items : IncRef(i)
    \/ \E i \in Items : DecRef(i)
    \/ \E c \in Clients : ClientCreate(c)
    \/ \E c \in Clients : ClientDone(c)

SpecFrame == InitFrame /\ [][NextFrame]_vars

\* the step is an ass_cache_cut: it records itself as the last operation
IsCut == hist'.last.op = "cut" /\ hist'.last # hist.last

\* C20: every cut advances cur_frame by exactly one, whether or not it
\* drained or evicted anything; no step of get, inc_ref, dec_ref, empty,
\* client_create or client_done changes cur_frame.
C20_OnlyCutAdvancesFrame ==
    [][IF IsCut THEN cache'.cur_frame = cache.cur_frame + 1
                ELSE cache'.cur_frame = cache.cur_frame]_vars

\* two cuts have run: the first could evict nothing, the second evicted an
\* item that a holder keeps alive; a client has been destroyed meanwhile
C20_Witness ==
    /\ cache.cur_frame = 2
    /\ hist.last.op = "cut" /\ hist.last.frame = 1
    /\ \E i \in hist.last.evicted : item[i].st = "live" /\ hist.held[i] = 1
    /\ \E c \in Clients : ~client[c].attached

\* ---- inc_ref and dec_ref of a null value ----------------------------------
NullFrame == 1

\* ass_cache_inc_ref(NULL), lines 672-675
IncRefNull ==
    /\ ~hist.ub
    /\ AllIdle
    /\ Install(CacheIncRef([St EXCEPT !.hist.last = [NoOp EXCEPT !.op = "inc_ref_null"]],
                           NULL))
    /\ UNCHANGED <<mutex, waiters, nalloc>>

\* ass_cache_dec_ref(NULL), lines 688-691
DecRefNull ==
    /\ ~hist.ub
    /\ AllIdle
    /\ Install(CacheDecRef([St EXCEPT !.hist.last = [NoOp EXCEPT !.op = "dec_ref_null"]],
                           NULL, MaxItems))
    /\ UNCHANGED <<mutex, waiters, nalloc>>

InitNull == InitWith(1, FALSE, FALSE)

NextNull ==
    \/ GetStepAlone(1, PlainKeys, MaxItems)
    \/ \E m \in {0, MaxItems * Contribution(MaxSize)} : Cut(m, NullFrame)
    \/ \E i \in Items : IncRef(i)
    \/ \E i \in Items : DecRef(i)
    \/ IncRefNull
    \/ DecRefNull

SpecNull == InitNull /\ [][NextNull]_vars

\* the step is an inc_ref or dec_ref of a null value
IsNullRefStep == hist'.last.op \in {"inc_ref_null", "dec_ref_null"} /\ hist'.last # hist.last

\* C21: ass_cache_inc_ref(NULL) and ass_cache_dec_ref(NULL) change no item's
\* ref_count and nothing else of the cache: items, cache record, clients,
\* and the counts of construct and destruct calls are as before.
C21_NullRefIsNoOp ==
    [][IsNullRefStep =>
          /\ item' = item /\ cache' = cache /\ client' = client /\ other' = other
          /\ mutex' = mutex /\ waiters' = waiters /\ nalloc' = nalloc
          /\ hist' = [hist EXCEPT !.last = hist'.last]]_vars

\* a dec_ref of a null value has just run on a cache that stores an item
\* with an outside reference and an item with none
C21_Witness ==
    /\ hist.last.op = "dec_ref_null"
    /\ \E i \in Stored : item[i].ref_count = 2 /\ hist.held[i] = 1
    /\ \E j \in Stored : item[j].ref_count = 1
    /\ cache.cur_frame = 1

\* the clients on whose promote list item i is
PromotedBy(i) == {c \in Clients : i \in Range(PromoteList(c))}

\* client c pushes an item on its promote list in this step
Pushes(c) == client'[c].promote_first \notin {client[c].promote_first, NULL}

\* C22: whatever the interleaving of hits, an item is on at most one promote
\* list, at most once, and only stamped with the current frame; the client
\* that pushes it is the one whose exchange found an older stamp.  A new item
\* is stamped with the current frame when it is prepared and stamps never go
\* back, so it is not pushed in the frame of its creation.
C22_PromotedOncePerFrame ==
    /\ [](\A i \in Items : Cardinality(PromotedBy(i)) <= 1)
    /\ [](\A c \in Clients :
             /\ Len(PromoteList(c)) = Cardinality(Range(PromoteList(c)))
             /\ \A i \in Range(PromoteList(c)) :
                   item[i].st = "live" /\ item[i].last_used_frame = cache.cur_frame)
    /\ [](\A i \in Items : item[i].st = "live" => item[i].last_used_frame <= cache.cur_frame)
    /\ [][\A c \in Clients : Pushes(c) =>
             LET f == client'[c].promote_first
             IN  /\ item[f].last_used_frame < cache.cur_frame
                 /\ item'[f].last_used_frame = cache.cur_frame
                 /\ PromotedBy(f) = {}
                 /\ item'[f].promote_next = client[c].promote_first]_vars
    /\ [][\A i \in Items :
             /\ item[i].st = "unused" /\ item'[i].st = "live"
                   => item'[i].last_used_frame = cache.cur_frame
             /\ item[i].st = "live" /\ item'[i].st = "live"
                   => item'[i].last_used_frame >= item[i].last_used_frame]_vars

\* two clients hit the same item in a new frame and both read an old stamp;
\* one has pushed the item, the other is about to make its exchange and lose
C22_Witness ==
    \E c, d \in Clients :
       /\ c # d
       /\ client[d].pc = "xchg"
       /\ client[c].found = client[d].found
       /\ client[d].found \in Range(PromoteList(c))
       /\ item[client[d].found].last_used_frame = cache.cur_frame
       /\ client[d].promote_first = NULL

\* the stored items stamped with the frame the last cut ended
UsedInCutFrame == {i \in Stored : item[i].last_used_frame = hist.last.frame}

\* C23: after a cut, every stored item that was used in the frame the cut
\* ended is in the queue, behind every item that was not, and the promote
\* list of every attached client is empty, whichever clients made the
\* promotions and whether or not they have since been destroyed.
C23_CutReflectsPromotions ==
    hist.last.op = "cut" =>
       /\ UsedInCutFrame \subseteq Range(Queue)
       /\ \A a, b \in DOMAIN Queue :
             a < b /\ Queue[a] \in UsedInCutFrame => Queue[b] \in UsedInCutFrame
       /\ \A c \in Clients : client[c].attached => client[c].promote_first = NULL

\* a step of client c's get after it has matched an existing item
HitStep(c) == client[c].found # NULL /\ client'[c] # client[c]

\* C24: no step of a get that has matched an existing item changes the cache
\* record (bucket heads, queue ends, cache_size), a link, size or count of an
\* item, another client's promote list or the construct count.  It may stamp
\* the matched item with the current frame and push it on its own promote
\* list, and only when the stamp was older; it may free the item it had
\* prepared and not stored.
C24_HitDoesNoQueueWork ==
    [][\A c \in Clients : HitStep(c) =>
          /\ cache' = cache /\ other' = other /\ nalloc' = nalloc
          /\ hist'.ncons = hist.ncons /\ hist'.ndestr = hist.ndestr
          /\ \A d \in Clients \ {c} : client'[d].promote_first = client[d].promote_first
          /\ \A i \in Items :
                \/ item'[i] = item[i]
                \/ /\ i = client[c].found
                   /\ item[i].last_used_frame # cache.cur_frame
                   /\ item'[i] = [item[i] EXCEPT !.last_used_frame = cache.cur_frame,
                                                 !.promote_next = client[c].promote_first]
                   /\ client'[c].promote_first = i
                \/ /\ i = client[c].new_item /\ i \notin Stored
                   /\ item'[i] = FreedItem
          /\ client'[c].promote_first # client[c].promote_first =>
                /\ client'[c].promote_first = client[c].found
                /\ item[client[c].found].last_used_frame # cache.cur_frame]_vars

\* a get returns from a hit on an item stamped with the current frame, beside
\* another stored item: nothing is on the client's promote list
C24_Witness ==
    \E c \in Clients :
       /\ client[c].pc = "ret" /\ client[c].found # NULL /\ client[c].new_item = NULL
       /\ client[c].ret = client[c].found
       /\ item[client[c].found].last_used_frame = cache.cur_frame
       /\ client[c].promote_first = NULL
       /\ cache.cur_frame = 1
       /\ Cardinality(Stored) = 2

\* the queue as the drain of lines 698-717 leaves it, before the eviction loop
DrainedQueue ==
    LET D == DrainAll(St, 0)
    IN  QueueFrom(D.item, D.cache.queue_first, MaxItems + 1)

\* the first k items of queue q, and what they contribute to cache_size
Prefix(q, k) == {q[x] : x \in 1..k}
PrefixSize(q, k) == SumOver([i \in Items |-> Contribution(item[i].size)], Prefix(q, k))

\* C25: the items a cut evicts are the first k items of the queue as the
\* drain left it, and each of them was evicted while cache_size was above
\* max_size; a cut that starts with cache_size <= max_size unlinks nothing
\* and decrements no count.
C25_EvictsOnlyOverBudget ==
    [][IsCut /\ ~hist'.ub =>
          LET q == DrainedQueue
              k == Cardinality(hist'.last.evicted)
          IN  /\ k <= Len(q)
              /\ hist'.last.evicted = Prefix(q, k)
              /\ Stored' = Stored \ hist'.last.evicted
              /\ \A j \in 0..(k - 1) :
                    cache.cache_size - PrefixSize(q, j) > hist'.last.max
              /\ cache'.cache_size = cache.cache_size - PrefixSize(q, k)
              /\ cache.cache_size <= hist'.last.max =>
                    /\ k = 0
                    /\ \A i \in Items : /\ item'[i].st = item[i].st
                                        /\ item'[i].ref_count = item[i].ref_count
                                        /\ item'[i].next = item[i].next
                                        /\ item'[i].prev = item[i].prev]_vars

\* a cut with a budget between nothing and everything evicted the head of
\* the queue and stopped at an older item that fits the budget
C25_Witness ==
    /\ hist.last.op = "cut" /\ hist.last.max = Contribution(MaxSize)
    /\ hist.last.evicted # {}
    /\ \E i \in Stored : item[i].last_used_frame < hist.last.frame
    /\ cache.cache_size > 0 /\ cache.cache_size <= hist.last.max

\* C26: an item a cut evicts is afterwards in no bucket chain, not in the
\* queue and on no promote list, and no stored item links to it; the size
\* contributions of the evicted items are subtracted from cache_size; its
\* count is lowered by one, and it is destructed in the cut exactly when that
\* was its last reference.  A get never matches an item that is not stored:
\* for a key with no stored item it prepares a new one.
C26_EvictedItemIsGone ==
    /\ [][IsCut /\ ~hist'.ub =>
             /\ cache'.cache_size = cache.cache_size
                   - SumOver([i \in Items |-> Contribution(item[i].size)], hist'.last.evicted)
             /\ \A i \in hist'.last.evicted :
                   /\ i \in Stored /\ i \notin Stored'
                   /\ i \notin Range(QueueFrom(item', cache'.queue_first, MaxItems + 1))
                   /\ \A c \in Clients :
                         i \notin Range(PromoteFrom(item', client'[c].promote_first,
                                                    MaxItems + 1))
                   /\ \A j \in Stored' : item'[j].next # i /\ item'[j].queue_next # i
                   /\ \A b \in DOMAIN cache'.map : cache'.map[b] # i
                   /\ IF item[i].ref_count = 1
                      THEN item'[i].st = "freed" /\ hist'.ndestr[i] = hist.ndestr[i] + 1
                      ELSE /\ item'[i].st = "live" /\ hist'.ndestr[i] = hist.ndestr[i]
                           /\ item'[i].ref_count = item[i].ref_count - 1
                           /\ item'[i].next = NULL /\ item'[i].prev = NoLink
                           /\ item'[i].queue_next = NULL /\ item'[i].queue_prev = NoLink]_vars
    /\ [][\A c \in Clients : Idle(c) /\ ~Idle(c)' /\ ~hist'.ub =>
             /\ client'[c].found # NULL => client'[c].found \in Stored
             /\ client'[c].pc = "alloc" <=> StoredWithKey(client'[c].key) = {}]_vars
    /\ [](\A c \in Clients : client[c].pc = "ret" /\ client[c].ret # NULL =>
             hist.dby[client[c].ret] = "none" /\ client[c].ret \notin hist.last.evicted)

\* a cut has destructed one item and unlinked another that a holder keeps
\* alive; a get with the key of the latter has constructed a new item
C26_Witness ==
    \E c \in Clients, i, j \in Items :
       /\ hist.dby[j] = "cut"
       /\ item[i].st = "live" /\ i \notin Stored /\ hist.held[i] = 1 /\ item[i].ref_count = 1
       /\ client[c].pc = "ret" /\ client[c].ret # NULL /\ client[c].ret # i
       /\ Compare(item[client[c].ret].key, item[i].key)
       /\ hist.ncons[client[c].ret] = 1

\* ---- eviction order over several frames -----------------------------------
LruKeys == 2
LruFrame == 3

InitLru == InitWith(1, FALSE, FALSE)

NextLru ==
    \/ GetStepAlone(1, {Key(n, NULL) : n \in 1..LruKeys}, MaxItems)
    \/ \E m \in CutSizes : Cut(m, LruFrame)
    \/ ClientDone(1)
    \/ ClientCreate(1)

SpecLru == InitLru /\ [][NextLru]_vars

\* C27: eviction is least recently used first: a cut does not evict a stored
\* item Y and leave stored an item X whose last_used_frame is smaller.
C27_EvictsLeastRecentlyUsedFirst ==
    [][IsCut =>
          \A X, Y \in Stored :
             /\ item[X].last_used_frame < item[Y].last_used_frame
             /\ Y \in hist'.last.evicted
             => X \notin Stored']_vars

\* C28: a cut with max_size 0 keeps the items used in the frame it ends and
\* unlinks every other stored item; so an item used in frame F survives the
\* cut that ends F, is unlinked by a cut(0) ending a later frame in which it
\* was not used, and a cut(0) ending a frame without gets leaves nothing
\* stored.
C28_UnusedItemsLeaveAtCutZero ==
    [][IsCut /\ hist'.last.max = 0 /\ ~hist'.ub =>
          Stored' = {i \in Stored : item[i].last_used_frame = cache.cur_frame}]_vars

\* client c is between the publication of its new item i and the store of
\* the size: linking it in the queue, constructing, or about to publish
Constructing(c, i) ==
    /\ client[c].new_item = i /\ client[c].found = NULL
    /\ client[c].pc \in {"qxchg", "qlink", "construct", "plock", "pstore"}

\* C29: the size of an item is 0 while it is prepared and published and until
\* its constructor has returned; it is written once, by the client that
\* inserted the item, with the size the constructor reported (>= 1), and
\* never changes afterwards.
C29_SizeWrittenOnce ==
    /\ [](\A i \in Items : item[i].st = "live" =>
             /\ item[i].size = 0 =>
                   \E c \in Clients : client[c].new_item = i /\ item[i].creating_client = c
             /\ i \in Stored /\ item[i].size = 0 => Constructing(item[i].creating_client, i)
             /\ hist.ncons[i] = 0 => item[i].size = 0
             /\ item[i].size # 0 => item[i].size \in Sizes /\ hist.ncons[i] = 1)
    /\ [][\A i \in Items :
             item[i].st = "live" /\ item'[i].st = "live" /\ item'[i].size # item[i].size =>
                LET c == item[i].creating_client
                IN  /\ item[i].size = 0
                    /\ client[c].pc = "pstore" /\ client[c].new_item = i
                    /\ client'[c].pc = "bcast"
                    /\ item'[i].size = client[c].size /\ client[c].size >= 1
                    /\ mutex[c] = c]_vars

\* the inserting client has published the size of its item while another
\* client, which matched the item when its size was 0, sleeps on the barrier
C29_Witness ==
    \E c, d \in Clients :
       /\ c # d
       /\ client[c].pc = "bcast" /\ item[client[c].new_item].size = MaxSize
       /\ client[d].found = client[c].new_item /\ client[d].pc = "sleep"

\* ---- one cache of each type ------------------------------------------------
DescFrame == 2

\* the keys of a cache of type desc: a font key embeds no counted value
DescKeys(desc) ==
    IF desc = "font" THEN {Key(n, NULL) : n \in 1..2}
    ELSE {Key(1, NULL)} \cup {Key(2, r) : r \in Items}

\* ass_cache_create(desc) for any of the cache types, and one client
InitDesc ==
    \E desc \in Descs :
       /\ item = [i \in Items |-> UnusedItem]
       /\ cache = [InitCache(1) EXCEPT !.desc = desc]
       /\ client = [c \in Clients |-> InitClient(c, 1)]
       /\ mutex = [c \in Clients |-> NULL]
       /\ waiters = [c \in Clients |-> {}]
       /\ nalloc = 0
       /\ other = InitOther
       /\ hist = InitHist(FALSE, FALSE)

NextDesc ==
    \/ GetStepAlone(1, DescKeys(cache.desc), MaxItems)
    \/ \E m \in {0, MaxItems * Contribution(MaxSize)} : Cut(m, DescFrame)
    \/ Empty

SpecDesc == InitDesc /\ [][NextDesc]_vars

\* C30: whatever the type of the cache, the final release of an item
\* releases its value and then its key, each once.
C30_KeyDestructedOnceAfterValue ==
    \A i \in Items : hist.ndestr[i] >= 1 =>
       /\ hist.ndestr[i] = 1
       /\ hist.dord[i] = <<"value", "key">>

\* ---- gets of other keys during a construction ------------------------------
\* Two threads get any of the keys: key 1 has a bucket of its own, keys 2 and
\* 3 share a bucket and a hash code.
BusyItems == 2
BusyFrame == 1

InitBusy == InitWith(NClients, FALSE, FALSE)

NextBusy ==
    \/ \E c \in Clients : GetStep(c, PlainKeys, BusyItems)
    \/ Cut(0, BusyFrame)

SpecBusy == InitBusy /\ [][NextBusy]_vars

\* client c is about to call construct_func (line 638)
AtConstruct(c) == client[c].pc = "construct"

\* C31: a thread that is about to call construct_func holds neither the
\* cache's mutex nor the mutex of any client, and no other thread inside a
\* get of another key, of the same bucket or of another, waits for it: such a
\* thread can take its next step, unless it sleeps at the barrier of an item
\* that a third thread is constructing or waits for a mutex that a third
\* thread holds.
C31_ConstructHoldsNoLock ==
    \A c \in Clients : AtConstruct(c) =>
       /\ cache.mutex # c
       /\ \A d \in Clients : mutex[d] # c
       /\ \A d \in Clients \ {c} :
             ~Idle(d) /\ ~Compare(client[d].key, client[c].key) =>
                \/ ENABLED GetProgress(d)
                \/ /\ client[d].pc = "sleep"
                   /\ client[d].found # client[c].new_item
                   /\ item[client[d].found].creating_client # c
                \/ /\ client[d].pc = "wlock"
                   /\ mutex[item[client[d].found].creating_client] \notin {NULL, c}
                \/ /\ client[d].pc = "plock"
                   /\ mutex[d] \notin {NULL, c}

\* while c is about to construct the item of one key, d has stored,
\* constructed and published an item of another key in the same bucket, in
\* front of c's, and returns it
C31_Witness ==
    \E c, d \in Clients :
       /\ c # d /\ AtConstruct(c)
       /\ client[d].pc = "ret" /\ client[d].ret = client[d].new_item /\ client[d].ret # NULL
       /\ Bucket(client[d].key) = Bucket(client[c].key)
       /\ item[client[d].ret].next = client[c].new_item
       /\ item[client[d].ret].queue_prev = QNextLink(client[c].new_item)
       /\ item[client[d].ret].size >= 1 /\ item[client[c].new_item].size = 0

\* ---- client_create and client_done called by several threads ---------------
\* A thread owns at most one client handle.  While it is inside
\* ass_cache_client_create, client[c].idx is the local idx and client[c].ret
\* the local pointer client: NULL, or c for the record calloc handed out.
ClientItems == 2
ClientFrame == 1

\* pthread_mutex_lock(&cache->mutex), line 467
ClientCreateLock(c) ==
    /\ Running
    /\ ~client[c].attached /\ Idle(c)
    /\ cache.mutex = NULL
    /\ cache' = [cache EXCEPT !.mutex = c]
    /\ client' = [client EXCEPT ![c].pc = "cc_scan", ![c].ret = NULL]
    /\ UNCHANGED <<other, item, mutex, waiters, nalloc, hist>>

\* lines 470-475: the scan for the first empty slot
ClientCreateScan(c) ==
    /\ Running
    /\ client[c].pc = "cc_scan"
    /\ FreeSlot < NClients
    /\ client' = [client EXCEPT ![c].idx = FreeSlot, ![c].pc = "cc_store"]
    /\ UNCHANGED <<other, item, cache, mutex, waiters, nalloc, hist>>

\* what can happen in lines 477-500
CreateOutcomes == {"ok", "realloc_fail", "calloc_fail", "mutex_fail", "cond_fail"}

\* lines 477-509: the table is grown, the record allocated and initialised
\* and stored in its slot; then the mutex is released.  A failed realloc or
\* calloc leaves the local pointer NULL; a failed pthread_mutex_init or
\* pthread_cond_init frees the record and leaves the local pointer at it.
\* pthread_cond_destroy of the condition variable that failed to initialise
\* (line 496) is undefined.
ClientCreateStore(c) ==
    /\ Running
    /\ client[c].pc = "cc_store"
    /\ \E out \in CreateOutcomes, undef \in BOOLEAN :
          LET idx == client[c].idx IN
          /\ out = "realloc_fail" => idx >= cache.n_clients
          /\ undef => out = "cond_fail"
          /\ cache' = IF out = "ok"
                      THEN [cache EXCEPT !.clients[idx] = c,
                                         !.n_clients = IF idx >= @ THEN idx + 1 ELSE @,
                                         !.mutex = NULL]
                      ELSE [cache EXCEPT !.mutex = NULL]
          /\ client' = [client EXCEPT
                           ![c].attached = (out = "ok"),
                           ![c].ret = IF out \in {"realloc_fail", "calloc_fail"} THEN NULL ELSE c,
                           ![c].pc = "cc_ret"]
          /\ hist' = [hist EXCEPT !.ub = undef]
    /\ UNCHANGED <<other, item, mutex, waiters, nalloc>>

\* line 511: return client
ClientCreateReturn(c) ==
    /\ Running
    /\ client[c].pc = "cc_ret"
    /\ client' = [client EXCEPT ![c] = [attached |-> client[c].attached,
                                         idx |-> IF client[c].attached THEN client[c].idx ELSE 0,
                                         promote_first |-> NULL] @@ IdleLocals]
    /\ UNCHANGED <<other, item, cache, mutex, waiters, nalloc, hist>>

\* pthread_mutex_lock(&cache->mutex), line 522, called by the client's thread
\* between its gets
ClientDoneLock(c) ==
    /\ Running
    /\ client[c].attached /\ Idle(c)
    /\ cache.mutex = NULL
    /\ cache' = [cache EXCEPT !.mutex = c]
    /\ client' = [client EXCEPT ![c].pc = "cd_clear"]
    /\ UNCHANGED <<other, item, mutex, waiters, nalloc, hist>>

\* the threads that are at the construction barrier of an item client c created
BarrierUsers(c) ==
    {d \in Clients \ {c} : /\ client[d].pc \in {"wlock", "wtest", "sleep"}
                           /\ item[client[d].found].creating_client = c}

\* lines 525-534: the slot is cleared, the client's mutex and condition
\* variable destroyed, the cache's mutex released and the record freed.  A
\* thread still at the barrier of an item of this client is left with a
\* destroyed mutex in freed memory.
ClientDoneClear(c) ==
    /\ Running
    /\ client[c].pc = "cd_clear"
    /\ cache' = [cache EXCEPT !.clients[client[c].idx] = NULL, !.mutex = NULL]
    /\ client' = [client EXCEPT ![c] = [attached |-> FALSE, idx |-> 0,
                                         promote_first |-> NULL] @@ IdleLocals]
    /\ hist' = [hist EXCEPT !.ub = BarrierUsers(c) # {}]
    /\ UNCHANGED <<other, item, mutex, waiters, nalloc>>

\* ass_cache_create: no client yet
InitClients == InitWith(0, FALSE, FALSE)

NextClients ==
    \/ \E c \in Clients : ClientCreateLock(c)
    \/ \E c \in Clients : ClientCreateScan(c)
    \/ \E c \in Clients : ClientCreateStore(c)
    \/ \E c \in Clients : ClientCreateReturn(c)
    \/ \E c \in Clients : ClientDoneLock(c)
    \/ \E c \in Clients : ClientDoneClear(c)
    \/ \E c \in Clients : GetStep(c, {Key(1, NULL)}, ClientItems)
    \/ Cut(0, ClientFrame)

SpecClients == InitClients /\ [][NextClients]_vars

\* the slots of the table that are in use
UsedSlots == {s \in 0..(cache.n_clients - 1) : cache.clients[s] # NULL}

\* the lowest slot of the table that is free, or one past its end
LowestFree == CHOOSE s \in 0..cache.n_clients : s \notin UsedSlots /\ \A t \in 0..(s - 1) : t \in UsedSlots

\* the table with the mutex left out
Table(ch) == [n_clients |-> ch.n_clients, clients |-> ch.clients]

\* C32: under any interleaving of client_create and client_done calls the
\* client table is consistent: every live client is in the slot its idx names
\* and in no other, no two live clients share a slot; client_create takes the
\* lowest free slot; client_done clears its own slot only; n_clients never
\* decreases; a client_create that fails returns null and leaves the table
\* as it was.
C32_ClientTableConsistent ==
    /\ [](\A c \in Clients : client[c].attached =>
             /\ client[c].idx < cache.n_clients
             /\ cache.clients[client[c].idx] = c
             /\ \A d \in Clients \ {c} : client[d].attached => client[d].idx # client[c].idx)
    /\ [](\A s \in UsedSlots : client[cache.clients[s]].attached /\ client[cache.clients[s]].idx = s)
    /\ [][cache'.n_clients >= cache.n_clients]_vars
    /\ [][\A c \in Clients :
             /\ client[c].pc = "cc_store" /\ client'[c].attached =>
                   /\ client'[c].idx = LowestFree
                   /\ Table(cache') = [Table(cache) EXCEPT
                                          !.clients[LowestFree] = c,
                                          !.n_clients = IF LowestFree >= @ THEN LowestFree + 1 ELSE @]
             /\ client[c].pc = "cc_store" /\ ~client'[c].attached =>
                   /\ Table(cache') = Table(cache)
                   /\ client'[c].ret = NULL
             /\ client[c].pc = "cd_clear" /\ client'[c].pc = "idle" =>
                   Table(cache') = [Table(cache) EXCEPT !.clients[client[c].idx] = NULL]]_vars

\* C33: whenever no get, cut or empty is in progress, the items reached from
\* queue_first by queue_next are the items stored in the bucket chains, each
\* once and without a cycle; the queue_prev of each addresses the link that
\* points at it (queue_first for the head, the predecessor's queue_next
\* otherwise); queue_last addresses the queue_next of the last item, or
\* queue_first when the queue is empty.
C33_QueueMatchesBuckets ==
    AllIdle /\ cache.alive /\ ~hist.ub =>
       /\ Range(Queue) = Stored
       /\ Len(Queue) = Cardinality(Range(Queue))
       /\ \A a \in DOMAIN Queue :
             item[Queue[a]].queue_prev = IF a = 1 THEN QFirstLink ELSE QNextLink(Queue[a - 1])
       /\ cache.queue_last = IF Queue = <<>> THEN QFirstLink
                             ELSE QNextLink(Queue[Len(Queue)])

\* ---- concurrent insertions into one bucket, followed by cuts ----------------
\* Two threads get the two keys that share a bucket and a hash code; cuts
\* fall between the gets.
ChainFrame == 2

InitChain == InitWith(NClients, FALSE, FALSE)

NextChain ==
    \/ \E c \in Clients : GetStep(c, LiveKeySet, MaxItems)
    \/ \E m \in {0, MaxItems * Contribution(MaxSize)} : Cut(m, ChainFrame)

SpecChain == InitChain /\ [][NextChain]_vars

\* C34: whenever no get is in progress, every item in the chain of bucket b
\* is alive and has hash mod buckets = b, its prev addresses the link that
\* points at it (the bucket head, or the next field of its predecessor), no
\* chain holds an item twice, and no two stored items have keys that compare
\* equal.
C34_BucketChainsWellFormed ==
    AllIdle /\ cache.alive /\ ~hist.ub =>
       /\ \A b \in DOMAIN cache.map :
             LET ch == BucketChain(b) IN
             /\ Len(ch) = Cardinality(Range(ch))
             /\ \A a \in DOMAIN ch :
                   /\ item[ch[a]].st = "live"
                   /\ item[ch[a]].hash % Buckets = b
                   /\ item[ch[a]].prev = IF a = 1 THEN BucketLink(b) ELSE NextLink(ch[a - 1])
       /\ \A i, j \in Stored : i # j => ~Compare(item[i].key, item[j].key)

\* two items of one bucket, inserted by different threads, were stored when
\* a cut evicted the one in front, whose key has since been stored again: the
\* chain is the new item and, behind it, the survivor
C34_Witness ==
    /\ AllIdle /\ cache.cur_frame = 2
    /\ \E i, j, k \in Items :
          /\ hist.dby[j] = "cut" /\ i < j /\ j < k
          /\ BucketChain(1) = <<k, i>>
          /\ item[i].creating_client # item[k].creating_client
          /\ item[i].prev = NextLink(k)

\* something of the cache still points at item i or into it: a bucket head,
\* an end of the queue, or a link field of an item that has not been freed
LinkedTo(i) ==
    \/ \E b \in DOMAIN cache.map : cache.map[b] = i
    \/ cache.queue_first = i
    \/ cache.queue_last = QNextLink(i)
    \/ \E j \in Items :
          /\ item[j].st = "live"
          /\ \/ item[j].next = i \/ item[j].queue_next = i
             \/ item[j].prev = NextLink(i) \/ item[j].queue_prev = QNextLink(i)

DestroyedOnceWhenDetached ==
    \A i \in Items :
       /\ hist.ndestr[i] <= 1
       /\ ~hist.dlinked[i]
       /\ item[i].st = "freed" => ~LinkedTo(i)

C36_EvictedItemHasNoPromoteLink ==
    [][IsCut =>
          \A i \in hist'.last.evicted : item[i].promote_next = NULL]_vars
====
